---- MODULE Spec2Model ----
(***************************************************************************)
(* Authentication and one-time-passcode lifecycle of the patient backend:  *)
(* the OTP engine (app/services/otp_service.py) over the expiring          *)
(* key-value store (app/utils/redis_client.py), the token issuer           *)
(* (app/core/security.py) and the auth service (app/services/              *)
(* auth_service.py) behind its endpoints (app/api/v1/auth.py).             *)
(*                                                                         *)
(* Time is kept relative: every key of the store carries its remaining     *)
(* time to live in seconds, and the passing of time lowers them all.       *)
(* A Python Optional is a sequence of length at most one: << >> is None.   *)
(***************************************************************************)
EXTENDS Integers, Sequences, FiniteSets, TLC

VARIABLES
    store,   \* the Redis database: key -> << >> or <<[val, ttl]>>
    users,   \* the users table, in order of insertion
    patients, \* the patients table, in order of insertion
    wallet,  \* the tokens handed to clients so far
    pc,      \* per client: the place of its call in the handler
    call,    \* per client: the call in progress and its arguments
    loc,     \* per client: the handler's local variables
    ret,     \* per client: what the call returned or raised
    pre,     \* per client: the stores as they were when the call began
    hist     \* per identifier: what the clients were told so far

vars == <<store, users, patients, wallet, pc, call, loc, ret, pre, hist>>
db == <<users, patients, wallet>>

----------------------------------------------------------------------------
\* Settings (app/config.py) and literals of the OTP service.

OTP_EXPIRE_MINUTES == 5
OTP_MAX_ATTEMPTS == 3
OTP_RESEND_COOLDOWN_SECONDS == 30
OTP_RATE_LIMIT_PER_HOUR == 5
RATE_LIMIT_WINDOW_SECONDS == 3600
JWT_SECRET_KEY == "development-secret-key-please-change-in-production-min-32-characters"
JWT_ACCESS_TOKEN_EXPIRE_MINUTES == 15
JWT_REFRESH_TOKEN_EXPIRE_DAYS == 7
PASSWORD_MIN_LENGTH == 8
\* schemas/auth.py: LoginRequest.password = Field(..., min_length=8)
LoginRequestPasswordMinLength == 8

\* Seconds that pass in one step of the clock.
TickSeconds == 60

Procs == {"c1", "c2"}
Emails == {"a@x.com", "b@x.com"}
Phones == {"+971501111111", "+971502222222"}
Identifiers == Emails \cup Phones
Codes == {"111111", "222222"}

KeyKinds == {"otp", "otp_attempts", "otp_resend", "otp_rate_limit"}
Keys == KeyKinds \X Identifiers

_get_otp_key(identifier) == <<"otp", identifier>>
_get_attempts_key(identifier) == <<"otp_attempts", identifier>>
_get_resend_key(identifier) == <<"otp_resend", identifier>>
_get_rate_limit_key(identifier) == <<"otp_rate_limit", identifier>>

----------------------------------------------------------------------------
\* The store's commands, as Redis executes them.  A key set without EX, or
\* created by INCR, has no expiry: its ttl is -1.  TTL of a missing key is -2.

RedisGet(s, k) == IF s[k] = << >> THEN << >> ELSE <<s[k][1].val>>

RedisSet(s, k, v, ex) == [s EXCEPT ![k] = <<[val |-> v, ttl |-> ex]>>]

RedisDelete(s, k) == [s EXCEPT ![k] = << >>]

RedisExists(s, k) == s[k] # << >>

RedisIncr(s, k) ==
    IF s[k] = << >>
    THEN [s EXCEPT ![k] = <<[val |-> 1, ttl |-> -1]>>]
    ELSE [s EXCEPT ![k] = <<[val |-> s[k][1].val + 1, ttl |-> s[k][1].ttl]>>]

RedisTtl(s, k) == IF s[k] = << >> THEN -2 ELSE s[k][1].ttl

\* d seconds pass: keys whose time is up are gone, the others are d older.
RedisExpire(s, d) ==
    [k \in Keys |->
        IF s[k] = << >> THEN << >>
        ELSE IF s[k][1].ttl = -1 THEN s[k]
        ELSE IF s[k][1].ttl <= d THEN << >>
        ELSE <<[val |-> s[k][1].val, ttl |-> s[k][1].ttl - d]>>]

----------------------------------------------------------------------------
\* Results.  A raised NerulaException carries its class, status and message;
\* n is the number printed in the message, when it prints one.

NoCall == [op |-> "none", id |-> "", code |-> "", phone |-> "",
           password |-> << >>, token |-> << >>]
NoLocals == [rate_limit_count |-> << >>, stored_otp |-> << >>,
             attempts |-> << >>, otp |-> << >>, pending |-> "", user |-> << >>]

Raise(kind, status, msg, n) ==
    [kind |-> kind, status |-> status, msg |-> msg, n |-> n,
     otp |-> << >>, secs |-> 0, tokens |-> << >>, user |-> << >>]

NoResult == Raise("none", 0, "", 0)

RateLimitError == Raise("RateLimitError", 429,
                        "Too many OTP requests. Please try again later.", 0)
OTPError(ttl) == Raise("OTPError", 400,
                       "Please wait {ttl} seconds before requesting a new OTP", ttl)

\* generate_and_store returns (otp, expires_in_seconds).
Generated(otp, secs) ==
    [Raise("return", 200, "", 0) EXCEPT !.otp = <<otp>>, !.secs = secs]

\* verify returns (is_valid, error_message).
VerifyResult(valid, msg, n) ==
    Raise(IF valid THEN "valid" ELSE "invalid", 200, msg, n)

\* can_resend returns (can_resend, cooldown_seconds).
Resendable(can, ttl) == Raise(IF can THEN "resendable" ELSE "cooldown", 200, "", ttl)

MsgNotFound == "OTP expired or not found"
MsgLocked == "Maximum verification attempts exceeded. Please request a new OTP"
MsgExhausted == "Invalid OTP. Maximum attempts exceeded"
MsgRemaining == "Invalid OTP. {remaining_attempts} attempts remaining"

\* The exceptions of app/core/exceptions.py, and what is not one of them
\* and leaves an endpoint as status 500.
AuthenticationError(msg) == Raise("AuthenticationError", 401, msg, 0)
NotFoundError(msg) == Raise("NotFoundError", 404, msg, 0)
ValidationError(msg, n) == Raise("ValidationError", 422, msg, n)
DuplicateError(msg) == Raise("DuplicateError", 409, msg, 0)
Unexpected(msg) == Raise("Exception", 500, msg, 0)

\* What get_current_user raises.
Unauthorized(msg) == Raise("HTTPException", 401, msg, 0)

\* raise HTTPException(status_code=400, detail=...) in an endpoint.
BadRequest(msg) == Raise("HTTPException", 400, msg, 0)

\* The except clauses that close every endpoint's try block:
\* `except NerulaException as e` answers with e.status_code and e.message,
\* `except Exception as e` with status 500 and the endpoint's own detail.
\* HTTPException is an Exception and not a NerulaException.
NerulaExceptions == {"AuthenticationError", "NotFoundError", "ValidationError",
                     "DuplicateError", "RateLimitError", "OTPError"}
Caught(e, detail) == IF e.kind \in NerulaExceptions THEN e ELSE Unexpected(detail)

\* A request body with neither email nor phone: data.email or data.phone
\* is None.
Missing == ""

\* The responses of the endpoints.
Response(status, msg) == Raise("response", status, msg, 0)

\* What get_current_user returns to the endpoint that depends on it.
CurrentUser(user_id) == [Raise("user", 0, "", 0) EXCEPT !.user = <<user_id>>]

----------------------------------------------------------------------------
\* app/core/security.py.  A password is the sequence of its characters; a
\* bcrypt hash is opaque and verifies exactly the password it was made of.

Uppercase == {"A", "B", "C", "D", "E", "F", "G", "H", "I", "J", "K", "L", "M",
              "N", "O", "P", "Q", "R", "S", "T", "U", "V", "W", "X", "Y", "Z"}
Lowercase == {"a", "b", "c", "d", "e", "f", "g", "h", "i", "j", "k", "l", "m",
              "n", "o", "p", "q", "r", "s", "t", "u", "v", "w", "x", "y", "z"}
Digit == {"0", "1", "2", "3", "4", "5", "6", "7", "8", "9"}
Special == {"!", "@", "#", "$", "%", "^", "&", "*", "(", ")", ",", ".", "?",
            "\"", ":", "{", "}", "|", "<", ">"}

re_search(class, password) == \E i \in 1..Len(password) : password[i] \in class

validate_password_strength(password) ==
    IF Len(password) < PASSWORD_MIN_LENGTH
    THEN <<"Password must be at least {PASSWORD_MIN_LENGTH} characters long">>
    ELSE IF ~re_search(Uppercase, password)
    THEN <<"Password must contain at least one uppercase letter">>
    ELSE IF ~re_search(Lowercase, password)
    THEN <<"Password must contain at least one lowercase letter">>
    ELSE IF ~re_search(Digit, password)
    THEN <<"Password must contain at least one digit">>
    ELSE IF ~re_search(Special, password)
    THEN <<"Password must contain at least one special character">>
    ELSE << >>

hash_password(password) == <<"bcrypt", password>>
verify_password(plain_password, hashed_password) ==
    hashed_password = <<"bcrypt", plain_password>>

\* A token is its claims and the key that signed it; exp is the number of
\* seconds left until the expiry time, negative once that time has passed.
jwt_encode(claims, key) ==
    [sub |-> claims.sub, type |-> claims.type, exp |-> claims.exp, sig |-> key]

\* << >> stands for a raised JWTError.
jwt_decode(token, key) ==
    IF token.sig # key \/ token.exp < 0 THEN << >>
    ELSE <<[sub |-> token.sub, type |-> token.type]>>

create_access_token(sub) ==
    jwt_encode([sub |-> sub, type |-> "access",
                exp |-> JWT_ACCESS_TOKEN_EXPIRE_MINUTES * 60], JWT_SECRET_KEY)

create_refresh_token(sub) ==
    jwt_encode([sub |-> sub, type |-> "refresh",
                exp |-> JWT_REFRESH_TOKEN_EXPIRE_DAYS * 24 * 60 * 60],
               JWT_SECRET_KEY)

\* A slip: the type of the token is not looked at.
decode_access_token_AnyType(token) == jwt_decode(token, JWT_SECRET_KEY)

decode_access_token(token) ==
    LET payload == jwt_decode(token, JWT_SECRET_KEY)
    IN  IF payload = << >> THEN << >>
        ELSE IF payload[1].type # "access" THEN << >>
        ELSE payload

decode_refresh_token(token) ==
    LET payload == jwt_decode(token, JWT_SECRET_KEY)
    IN  IF payload = << >> THEN << >>
        ELSE IF payload[1].type # "refresh" THEN << >>
        ELSE payload

TokenResponse(sub) == [access_token |-> create_access_token(sub),
                       refresh_token |-> create_refresh_token(sub)]

----------------------------------------------------------------------------
\* What the clients of one identifier have been told so far (history, kept
\* by the observer and read by no handler): the code last handed out, the
\* seconds since then, the wrong and the accepted submissions since then,
\* the submissions since then that verify compared with a stored code,
\* the hour that began with the first generation after the previous hour
\* ended (win), and an hour that an observer began at a generation of its
\* choice (obs), each with the generations answered in it.

NoHistory == [issued |-> << >>, age |-> 0, wrong |-> 0, accepted |-> 0,
              compared |-> 0,
              winLeft |-> 0, winCount |-> 0, obsLeft |-> 0, obsCount |-> 0]

Min(a, b) == IF a <= b THEN a ELSE b

\* The comparisons are counted up to here, two more than max_attempts.
MaxCompared == 5

Quiet == \A p \in Procs : pc[p] = "idle"

NoSnapshot == [store |-> [k \in Keys |-> << >>], users |-> << >>,
               patients |-> << >>, wallet |-> {}]
Snapshot == [store |-> store, users |-> users, patients |-> patients,
             wallet |-> wallet]

Init ==
    /\ store = [k \in Keys |-> << >>]
    /\ pc = [p \in Procs |-> "idle"]
    /\ call = [p \in Procs |-> NoCall]
    /\ loc = [p \in Procs |-> NoLocals]
    /\ ret = [p \in Procs |-> NoResult]
    /\ pre = [p \in Procs |-> NoSnapshot]
    /\ users = << >>
    /\ patients = << >>
    /\ wallet = {}
    /\ hist = [i \in Identifiers |-> NoHistory]

----------------------------------------------------------------------------
\* OTPService.generate_and_store, one step per command sent to the store.

expire_seconds == OTP_EXPIRE_MINUTES * 60

Goto(p, label) == pc' = [pc EXCEPT ![p] = label]

\* Where a call goes on when the OTP service, or the handler itself, has
\* come to result r: register_user and resend_otp answer once the OTP is
\* generated, verify_otp raises ValidationError on a refused OTP and looks
\* the user up on an accepted one, /me answers with the user that
\* get_current_user found and change_password goes on with it (kept in ret
\* until the call ends); an exception leaves the endpoint as it is.
\* A slip: verify_otp goes on to the user whatever the OTP service answered.
Continue_AnyOtp(c, r) ==
    IF c.op = "verify_otp" /\ r.kind \in {"valid", "invalid"}
    THEN [pc |-> "vo_user", ret |-> NoResult]
    ELSE [pc |-> "done", ret |-> r]

Continue(c, r) ==
    IF c.op \in {"register_user", "resend_otp"} /\ r.kind = "return"
    THEN [pc |-> "done",
          ret |-> IF c.op = "register_user"
                  THEN Response(201, "Registration successful. Please verify your email with the OTP sent.")
                  ELSE Response(200, "OTP sent successfully to {identifier}")]
    ELSE IF c.op = "verify_otp" /\ r.kind = "valid"
    THEN [pc |-> "vo_user", ret |-> NoResult]
    ELSE IF c.op = "verify_otp" /\ r.kind = "invalid"
    THEN [pc |-> "done", ret |-> ValidationError(r.msg, r.n)]
    ELSE IF c.op = "me" /\ r.kind = "user"
    THEN [pc |-> "done", ret |-> [Response(200, "") EXCEPT !.user = r.user]]
    ELSE IF c.op = "change_password" /\ r.kind = "user"
    THEN [pc |-> "cp_run", ret |-> r]
    ELSE IF c.op = "logout" /\ r.kind = "user"
    THEN [pc |-> "done",
          ret |-> Response(200, "Logout successful. Please discard your tokens.")]
    ELSE [pc |-> "done", ret |-> r]

Done(p, result) ==
    /\ pc' = [pc EXCEPT ![p] = Continue(call[p], result).pc]
    /\ ret' = [ret EXCEPT ![p] = Continue(call[p], result).ret]

CallGenerate(p, id) ==
    /\ pc[p] = "idle"
    /\ Goto(p, "g_get_rate")
    /\ call' = [call EXCEPT ![p] =
                    [NoCall EXCEPT !.op = "generate_and_store", !.id = id]]
    /\ pre' = [pre EXCEPT ![p] = Snapshot]
    /\ UNCHANGED <<store, db, loc, ret, hist>>

\* A slip: the cooldown is looked at before the rate limit.
GenGetRate_CooldownFirst(p) ==
    /\ pc[p] = "g_get_rate"
    /\ LET rate_limit_count == RedisGet(store, _get_rate_limit_key(call[p].id))
       IN  IF RedisExists(store, _get_resend_key(call[p].id))
           THEN /\ Goto(p, "g_ttl")
                /\ UNCHANGED <<loc, ret>>
           ELSE IF /\ rate_limit_count # << >>
                   /\ rate_limit_count[1] >= OTP_RATE_LIMIT_PER_HOUR
           THEN /\ Done(p, RateLimitError)
                /\ UNCHANGED loc
           ELSE /\ Goto(p, "g_exists")
                /\ loc' = [loc EXCEPT ![p].rate_limit_count = rate_limit_count]
                /\ UNCHANGED ret
    /\ UNCHANGED <<store, db, call, pre, hist>>

\* A slip: the ceiling itself is still let through.
GenGetRate_Above(p) ==
    /\ pc[p] = "g_get_rate"
    /\ LET rate_limit_count == RedisGet(store, _get_rate_limit_key(call[p].id))
       IN  IF /\ rate_limit_count # << >>
              /\ rate_limit_count[1] > OTP_RATE_LIMIT_PER_HOUR
           THEN /\ Done(p, RateLimitError)
                /\ UNCHANGED loc
           ELSE /\ Goto(p, "g_exists")
                /\ loc' = [loc EXCEPT ![p].rate_limit_count = rate_limit_count]
                /\ UNCHANGED ret
    /\ UNCHANGED <<store, db, call, pre, hist>>

\* rate_limit_count = get(rate_limit_key); raise RateLimitError at the ceiling
GenGetRate(p) ==
    /\ pc[p] = "g_get_rate"
    /\ LET rate_limit_count == RedisGet(store, _get_rate_limit_key(call[p].id))
       IN  IF /\ rate_limit_count # << >>
              /\ rate_limit_count[1] >= OTP_RATE_LIMIT_PER_HOUR
           THEN /\ Done(p, RateLimitError)
                /\ UNCHANGED loc
           ELSE /\ Goto(p, "g_exists")
                /\ loc' = [loc EXCEPT ![p].rate_limit_count = rate_limit_count]
                /\ UNCHANGED ret
    /\ UNCHANGED <<store, db, call, pre, hist>>

\* if exists(resend_key): ...
GenExists(p) ==
    /\ pc[p] = "g_exists"
    /\ IF RedisExists(store, _get_resend_key(call[p].id))
       THEN Goto(p, "g_ttl")
       ELSE Goto(p, "g_set_otp")
    /\ UNCHANGED <<store, db, call, loc, ret, pre, hist>>

\* A slip: the refused request starts the cooldown again.
GenTtl_Extends(p) ==
    /\ pc[p] = "g_ttl"
    /\ Done(p, OTPError(RedisTtl(store, _get_resend_key(call[p].id))))
    /\ store' = RedisSet(store, _get_resend_key(call[p].id), 1,
                         OTP_RESEND_COOLDOWN_SECONDS)
    /\ UNCHANGED <<db, call, loc, pre, hist>>

\* ttl = ttl(resend_key); raise OTPError("Please wait {ttl} seconds ...")
GenTtl(p) ==
    /\ pc[p] = "g_ttl"
    /\ Done(p, OTPError(RedisTtl(store, _get_resend_key(call[p].id))))
    /\ UNCHANGED <<store, db, call, loc, pre, hist>>

\* otp = _generate_otp(); set(otp_key, otp, ex=expire_seconds)
GenSetOtp(p) ==
    /\ pc[p] = "g_set_otp"
    /\ \E otp \in Codes :
        /\ store' = RedisSet(store, _get_otp_key(call[p].id), otp, expire_seconds)
        /\ loc' = [loc EXCEPT ![p].otp = <<otp>>]
    /\ Goto(p, "g_set_attempts")
    /\ UNCHANGED <<db, call, ret, pre, hist>>

\* set(attempts_key, "0", ex=expire_seconds)
GenSetAttempts(p) ==
    /\ pc[p] = "g_set_attempts"
    /\ store' = RedisSet(store, _get_attempts_key(call[p].id), 0, expire_seconds)
    /\ Goto(p, "g_set_resend")
    /\ UNCHANGED <<db, call, loc, ret, pre, hist>>

\* set(resend_key, "1", ex=self.resend_cooldown)
GenSetResend(p) ==
    /\ pc[p] = "g_set_resend"
    /\ store' = RedisSet(store, _get_resend_key(call[p].id), 1,
                         OTP_RESEND_COOLDOWN_SECONDS)
    /\ Goto(p, "g_count")
    /\ UNCHANGED <<db, call, loc, ret, pre, hist>>

\* if not rate_limit_count: set(rate_limit_key, "1", ex=3600) else: incr(...)
\* return otp, expire_seconds
GenCount(p) ==
    /\ pc[p] = "g_count"
    /\ store' = IF loc[p].rate_limit_count = << >>
                THEN RedisSet(store, _get_rate_limit_key(call[p].id), 1,
                              RATE_LIMIT_WINDOW_SECONDS)
                ELSE RedisIncr(store, _get_rate_limit_key(call[p].id))
    /\ Done(p, Generated(loc[p].otp[1], expire_seconds))
    /\ UNCHANGED <<db, call, loc, pre, hist>>

----------------------------------------------------------------------------
\* OTPService.verify, one step per command sent to the store.  The three
\* places that delete the OTP and its attempts counter share two steps; the
\* message they end with is held in loc.pending.

CallVerify(p, id, code) ==
    /\ pc[p] = "idle"
    /\ Goto(p, "v_get_otp")
    /\ call' = [call EXCEPT ![p] =
                    [NoCall EXCEPT !.op = "verify", !.id = id, !.code = code]]
    /\ pre' = [pre EXCEPT ![p] = Snapshot]
    /\ UNCHANGED <<store, db, loc, ret, hist>>

\* A slip: a missing OTP is compared like a stored one.
VerifyGetOtp_NoCheck(p) ==
    /\ pc[p] = "v_get_otp"
    /\ LET stored_otp == RedisGet(store, _get_otp_key(call[p].id))
       IN  /\ Goto(p, "v_get_attempts")
           /\ loc' = [loc EXCEPT ![p].stored_otp =
                         IF stored_otp = << >> THEN <<"">> ELSE stored_otp]
           /\ UNCHANGED ret
    /\ UNCHANGED <<store, db, call, pre, hist>>

\* stored_otp = get(otp_key); if not stored_otp: return False, "... not found"
VerifyGetOtp(p) ==
    /\ pc[p] = "v_get_otp"
    /\ LET stored_otp == RedisGet(store, _get_otp_key(call[p].id))
       IN  IF stored_otp = << >>
           THEN /\ Done(p, VerifyResult(FALSE, MsgNotFound, 0))
                /\ UNCHANGED loc
           ELSE /\ Goto(p, "v_get_attempts")
                /\ loc' = [loc EXCEPT ![p].stored_otp = stored_otp]
                /\ UNCHANGED ret
    /\ UNCHANGED <<store, db, call, pre, hist>>

\* attempts = get(attempts_key); the attempts check and the comparison
VerifyGetAttempts(p) ==
    /\ pc[p] = "v_get_attempts"
    /\ LET attempts == RedisGet(store, _get_attempts_key(call[p].id))
       IN  /\ loc' = [loc EXCEPT
                ![p].attempts = attempts,
                ![p].pending =
                    IF attempts # << >> /\ attempts[1] >= OTP_MAX_ATTEMPTS
                    THEN MsgLocked
                    ELSE IF call[p].code # loc[p].stored_otp[1] THEN ""
                    ELSE "valid"]
           /\ IF attempts # << >> /\ attempts[1] >= OTP_MAX_ATTEMPTS
              THEN Goto(p, "v_del_otp")
              ELSE IF call[p].code # loc[p].stored_otp[1]
              THEN Goto(p, "v_incr")
              ELSE Goto(p, "v_del_otp")
    /\ UNCHANGED <<store, db, call, ret, pre, hist>>

\* A slip: the remaining attempts are counted from the value read before
\* the increment.
VerifyIncr_OffByOne(p) ==
    /\ pc[p] = "v_incr"
    /\ store' = RedisIncr(store, _get_attempts_key(call[p].id))
    /\ LET remaining_attempts ==
               OTP_MAX_ATTEMPTS - (IF loc[p].attempts # << >>
                                   THEN loc[p].attempts[1] ELSE 0)
       IN  IF remaining_attempts <= 0
           THEN /\ Goto(p, "v_del_otp")
                /\ loc' = [loc EXCEPT ![p].pending = MsgExhausted]
                /\ UNCHANGED ret
           ELSE /\ Done(p, VerifyResult(FALSE, MsgRemaining, remaining_attempts))
                /\ UNCHANGED loc
    /\ UNCHANGED <<db, call, pre, hist>>

\* A slip: the counter in the store is not incremented.
VerifyIncr_Forgotten(p) ==
    /\ pc[p] = "v_incr"
    /\ LET remaining_attempts ==
               OTP_MAX_ATTEMPTS - (IF loc[p].attempts # << >>
                                   THEN loc[p].attempts[1] + 1 ELSE 1)
       IN  IF remaining_attempts <= 0
           THEN /\ Goto(p, "v_del_otp")
                /\ loc' = [loc EXCEPT ![p].pending = MsgExhausted]
                /\ UNCHANGED ret
           ELSE /\ Done(p, VerifyResult(FALSE, MsgRemaining, remaining_attempts))
                /\ UNCHANGED loc
    /\ UNCHANGED <<store, db, call, pre, hist>>

\* incr(attempts_key); remaining_attempts = max_attempts - (attempts + 1)
VerifyIncr(p) ==
    /\ pc[p] = "v_incr"
    /\ store' = RedisIncr(store, _get_attempts_key(call[p].id))
    /\ LET remaining_attempts ==
               OTP_MAX_ATTEMPTS - (IF loc[p].attempts # << >>
                                   THEN loc[p].attempts[1] + 1 ELSE 1)
       IN  IF remaining_attempts <= 0
           THEN /\ Goto(p, "v_del_otp")
                /\ loc' = [loc EXCEPT ![p].pending = MsgExhausted]
                /\ UNCHANGED ret
           ELSE /\ Done(p, VerifyResult(FALSE, MsgRemaining, remaining_attempts))
                /\ UNCHANGED loc
    /\ UNCHANGED <<db, call, pre, hist>>

\* A slip: the OTP is left in the store.
VerifyDeleteOtp_Keep(p) ==
    /\ pc[p] = "v_del_otp"
    /\ Goto(p, "v_del_attempts")
    /\ UNCHANGED <<store, db, call, loc, ret, pre, hist>>

\* delete(otp_key)
VerifyDeleteOtp(p) ==
    /\ pc[p] = "v_del_otp"
    /\ store' = RedisDelete(store, _get_otp_key(call[p].id))
    /\ Goto(p, "v_del_attempts")
    /\ UNCHANGED <<db, call, loc, ret, pre, hist>>

\* delete(attempts_key); return
VerifyDeleteAttempts(p) ==
    /\ pc[p] = "v_del_attempts"
    /\ store' = RedisDelete(store, _get_attempts_key(call[p].id))
    /\ Done(p, IF loc[p].pending = "valid"
               THEN VerifyResult(TRUE, "", 0)
               ELSE VerifyResult(FALSE, loc[p].pending, 0))
    /\ UNCHANGED <<db, call, loc, pre, hist>>

----------------------------------------------------------------------------
\* The users and patients tables.  A user's id is its place in the table;
\* the optional demographic and identity fields of a registration are left
\* out, so the Emirates ID check of register_user is never entered.

NewUser(id, email, phone, password) ==
    [id |-> id, email |-> email, phone |-> phone,
     password_hash |-> hash_password(password), role |-> "patient",
     is_active |-> TRUE, is_verified |-> FALSE,
     email_verified |-> FALSE, phone_verified |-> FALSE,
     last_login |-> << >>, deleted_at |-> << >>]

NewPatient(user_id) == [user_id |-> user_id, deleted_at |-> << >>]

\* select(User).where(or_(email == identifier, phone == identifier),
\*                    deleted_at == None)
ByIdentifier(identifier) ==
    {i \in DOMAIN users :
        /\ users[i].email = identifier \/ users[i].phone = identifier
        /\ users[i].deleted_at = << >>}

\* select(User).where(id == user_id, deleted_at == None)
ById(user_id) ==
    {i \in DOMAIN users : users[i].id = user_id /\ users[i].deleted_at = << >>}

\* "@" in identifier
HasAt(identifier) == identifier \in Emails

Issue(tokens) == wallet' = wallet \cup {tokens.access_token, tokens.refresh_token}

WithTokens(r, user_id, tokens) ==
    [r EXCEPT !.user = <<user_id>>, !.tokens = <<tokens>>]

----------------------------------------------------------------------------
\* POST /auth/register: AuthService.register_user.

CallRegister(p, email, phone, password) ==
    /\ pc[p] = "idle"
    /\ Goto(p, "r_check")
    /\ call' = [call EXCEPT ![p] =
                    [NoCall EXCEPT !.op = "register_user", !.id = email,
                                   !.phone = phone, !.password = <<password>>]]
    /\ pre' = [pre EXCEPT ![p] = Snapshot]
    /\ UNCHANGED <<store, db, loc, ret, hist>>

\* A slip: the phone is not looked up.
RegisterCheck_EmailOnly(p) ==
    /\ pc[p] = "r_check"
    /\ LET error_msg == validate_password_strength(call[p].password[1])
       IN  IF error_msg # << >>
           THEN Done(p, ValidationError(error_msg[1], 0))
           ELSE IF \E i \in DOMAIN users : /\ users[i].email = call[p].id
                                            /\ users[i].deleted_at = << >>
           THEN Done(p, DuplicateError("Email already registered"))
           ELSE Goto(p, "r_insert") /\ UNCHANGED ret
    /\ UNCHANGED <<store, db, call, loc, pre, hist>>

\* the password policy, then the look-ups for the email and for the phone
RegisterCheck(p) ==
    /\ pc[p] = "r_check"
    /\ LET error_msg == validate_password_strength(call[p].password[1])
       IN  IF error_msg # << >>
           THEN Done(p, ValidationError(error_msg[1], 0))
           ELSE IF \E i \in DOMAIN users : /\ users[i].email = call[p].id
                                            /\ users[i].deleted_at = << >>
           THEN Done(p, DuplicateError("Email already registered"))
           ELSE IF \E i \in DOMAIN users : /\ users[i].phone = call[p].phone
                                            /\ users[i].deleted_at = << >>
           THEN Done(p, DuplicateError("Phone number already registered"))
           ELSE Goto(p, "r_insert") /\ UNCHANGED ret
    /\ UNCHANGED <<store, db, call, loc, pre, hist>>

\* add(user); flush(); add(patient); commit().  The columns email and phone
\* are unique over all rows, deleted or not: a flush that breaks this
\* raises, and the endpoint answers 500.
RegisterInsert(p) ==
    /\ pc[p] = "r_insert"
    /\ IF \E i \in DOMAIN users : \/ users[i].email = call[p].id
                                    \/ users[i].phone = call[p].phone
       THEN /\ Done(p, Unexpected("Registration failed: {e}"))
            /\ UNCHANGED <<users, patients, loc>>
       ELSE /\ users' = Append(users, NewUser(Len(users) + 1, call[p].id,
                                              call[p].phone, call[p].password[1]))
            /\ patients' = Append(patients, NewPatient(Len(users) + 1))
            /\ loc' = [loc EXCEPT ![p].user = <<Len(users) + 1>>]
            /\ Goto(p, "g_get_rate")
            /\ UNCHANGED ret
    /\ UNCHANGED <<store, wallet, call, pre, hist>>

----------------------------------------------------------------------------
\* POST /auth/verify-otp: AuthService.verify_otp, then the tokens that the
\* endpoint makes itself.

CallVerifyOtp(p, identifier, otp) ==
    /\ pc[p] = "idle"
    /\ call' = [call EXCEPT ![p] =
                    [NoCall EXCEPT !.op = "verify_otp", !.id = identifier,
                                   !.code = otp]]
    /\ pre' = [pre EXCEPT ![p] = Snapshot]
    /\ IF identifier = Missing
       THEN /\ Goto(p, "done")
            /\ ret' = [ret EXCEPT ![p] =
                          Caught(BadRequest("Email or phone number required"),
                                 "Verification failed: {e}")]
       ELSE Goto(p, "v_get_otp") /\ UNCHANGED ret
    /\ UNCHANGED <<store, db, loc, hist>>

\* LoginRequest(username=..., password=...): << >> stands for the raised
\* pydantic ValidationError of a password shorter than min_length.
LoginRequest(username, password) ==
    IF Len(password) < LoginRequestPasswordMinLength THEN << >>
    ELSE <<[username |-> username, password |-> password]>>

\* A slip: the endpoint makes the tokens without building the LoginRequest.
VerifyOtpUser_Direct(p) ==
    /\ pc[p] = "vo_user"
    /\ LET rows == ByIdentifier(call[p].id)
           i == CHOOSE r \in rows : TRUE
       IN  IF rows = {}
           THEN /\ Done(p, NotFoundError("User not found"))
                /\ UNCHANGED <<users, wallet>>
           ELSE IF Cardinality(rows) > 1
           THEN /\ Done(p, Unexpected("Verification failed: {e}"))
                /\ UNCHANGED <<users, wallet>>
           ELSE /\ users' = [users EXCEPT
                      ![i].is_verified = TRUE,
                      ![i].email_verified = IF HasAt(call[p].id) THEN TRUE ELSE @,
                      ![i].phone_verified = IF HasAt(call[p].id) THEN @ ELSE TRUE]
                /\ Issue(TokenResponse(users[i].id))
                /\ Done(p, WithTokens(Response(200, "Verification successful"),
                                      users[i].id, TokenResponse(users[i].id)))
    /\ UNCHANGED <<store, patients, call, loc, pre, hist>>

\* The user is marked verified and committed by the service; the endpoint
\* then builds LoginRequest(username=user.email, password="") before it makes
\* the tokens, and what that raises leaves through `except Exception`.
VerifyOtpUser(p) ==
    /\ pc[p] = "vo_user"
    /\ LET rows == ByIdentifier(call[p].id)
           i == CHOOSE r \in rows : TRUE
       IN  IF rows = {}
           THEN /\ Done(p, NotFoundError("User not found"))
                /\ UNCHANGED <<users, wallet>>
           ELSE IF Cardinality(rows) > 1
           THEN /\ Done(p, Unexpected("Verification failed: {e}"))
                /\ UNCHANGED <<users, wallet>>
           ELSE /\ users' = [users EXCEPT
                      ![i].is_verified = TRUE,
                      ![i].email_verified = IF HasAt(call[p].id) THEN TRUE ELSE @,
                      ![i].phone_verified = IF HasAt(call[p].id) THEN @ ELSE TRUE]
                /\ IF LoginRequest(users[i].email, << >>) = << >>
                   THEN /\ Done(p, Unexpected("Verification failed: {e}"))
                        /\ UNCHANGED wallet
                   ELSE /\ Issue(TokenResponse(users[i].id))
                        /\ Done(p, WithTokens(Response(200, "Verification successful"),
                                              users[i].id, TokenResponse(users[i].id)))
    /\ UNCHANGED <<store, patients, call, loc, pre, hist>>

----------------------------------------------------------------------------
\* POST /auth/resend-otp: AuthService.resend_otp.

CallResendOtp(p, identifier) ==
    /\ pc[p] = "idle"
    /\ call' = [call EXCEPT ![p] =
                    [NoCall EXCEPT !.op = "resend_otp", !.id = identifier]]
    /\ pre' = [pre EXCEPT ![p] = Snapshot]
    /\ IF identifier = Missing
       THEN /\ Goto(p, "done")
            /\ ret' = [ret EXCEPT ![p] =
                          Caught(BadRequest("Email or phone number required"),
                                 "Failed to resend OTP: {e}")]
       ELSE Goto(p, "rs_user") /\ UNCHANGED ret
    /\ UNCHANGED <<store, db, loc, hist>>

\* A slip: the OTP is generated without looking the user up.
ResendUser_Unchecked(p) ==
    /\ pc[p] = "rs_user"
    /\ Goto(p, "g_get_rate")
    /\ UNCHANGED <<store, db, call, loc, ret, pre, hist>>

ResendUser(p) ==
    /\ pc[p] = "rs_user"
    /\ LET rows == ByIdentifier(call[p].id)
       IN  IF rows = {}
           THEN Done(p, NotFoundError("User not found"))
           ELSE IF Cardinality(rows) > 1
           THEN Done(p, Unexpected("Failed to resend OTP: {e}"))
           ELSE Goto(p, "g_get_rate") /\ UNCHANGED ret
    /\ UNCHANGED <<store, db, call, loc, pre, hist>>

----------------------------------------------------------------------------
\* POST /auth/login: AuthService.login.

CallLogin(p, username, password) ==
    /\ pc[p] = "idle"
    /\ Goto(p, "l_run")
    /\ call' = [call EXCEPT ![p] =
                    [NoCall EXCEPT !.op = "login", !.id = username,
                                   !.password = <<password>>]]
    /\ pre' = [pre EXCEPT ![p] = Snapshot]
    /\ UNCHANGED <<store, db, loc, ret, hist>>

\* A slip: the flags are looked at before the password.
LoginRun_FlagsFirst(p) ==
    /\ pc[p] = "l_run"
    /\ LET rows == ByIdentifier(call[p].id)
           i == CHOOSE r \in rows : TRUE
       IN  IF rows = {}
           THEN /\ Done(p, AuthenticationError("Invalid credentials"))
                /\ UNCHANGED <<users, wallet>>
           ELSE IF ~users[i].is_active
           THEN /\ Done(p, AuthenticationError("Account is inactive"))
                /\ UNCHANGED <<users, wallet>>
           ELSE IF ~users[i].is_verified
           THEN /\ Done(p, AuthenticationError(
                        "Account not verified. Please verify your email/phone"))
                /\ UNCHANGED <<users, wallet>>
           ELSE IF ~verify_password(call[p].password[1], users[i].password_hash)
           THEN /\ Done(p, AuthenticationError("Invalid credentials"))
                /\ UNCHANGED <<users, wallet>>
           ELSE /\ users' = [users EXCEPT ![i].last_login = <<"utcnow">>]
                /\ Issue(TokenResponse(users[i].id))
                /\ Done(p, WithTokens(Response(200, "Login successful"),
                                      users[i].id, TokenResponse(users[i].id)))
    /\ UNCHANGED <<store, patients, call, loc, pre, hist>>

\* A slip: the verified flag is looked at before the active flag.
LoginRun_VerifiedFirst(p) ==
    /\ pc[p] = "l_run"
    /\ LET rows == ByIdentifier(call[p].id)
           i == CHOOSE r \in rows : TRUE
       IN  IF rows = {}
           THEN /\ Done(p, AuthenticationError("Invalid credentials"))
                /\ UNCHANGED <<users, wallet>>
           ELSE IF ~verify_password(call[p].password[1], users[i].password_hash)
           THEN /\ Done(p, AuthenticationError("Invalid credentials"))
                /\ UNCHANGED <<users, wallet>>
           ELSE IF ~users[i].is_verified
           THEN /\ Done(p, AuthenticationError(
                        "Account not verified. Please verify your email/phone"))
                /\ UNCHANGED <<users, wallet>>
           ELSE IF ~users[i].is_active
           THEN /\ Done(p, AuthenticationError("Account is inactive"))
                /\ UNCHANGED <<users, wallet>>
           ELSE /\ users' = [users EXCEPT ![i].last_login = <<"utcnow">>]
                /\ Issue(TokenResponse(users[i].id))
                /\ Done(p, WithTokens(Response(200, "Login successful"),
                                      users[i].id, TokenResponse(users[i].id)))
    /\ UNCHANGED <<store, patients, call, loc, pre, hist>>

\* A slip: the is_verified flag is not looked at.
LoginRun_Unverified(p) ==
    /\ pc[p] = "l_run"
    /\ LET rows == ByIdentifier(call[p].id)
           i == CHOOSE r \in rows : TRUE
       IN  IF rows = {}
           THEN /\ Done(p, AuthenticationError("Invalid credentials"))
                /\ UNCHANGED <<users, wallet>>
           ELSE IF Cardinality(rows) > 1
           THEN /\ Done(p, Unexpected("Login failed: {e}"))
                /\ UNCHANGED <<users, wallet>>
           ELSE IF ~verify_password(call[p].password[1], users[i].password_hash)
           THEN /\ Done(p, AuthenticationError("Invalid credentials"))
                /\ UNCHANGED <<users, wallet>>
           ELSE IF ~users[i].is_active
           THEN /\ Done(p, AuthenticationError("Account is inactive"))
                /\ UNCHANGED <<users, wallet>>
           ELSE /\ users' = [users EXCEPT ![i].last_login = <<"utcnow">>]
                /\ Issue(TokenResponse(users[i].id))
                /\ Done(p, WithTokens(Response(200, "Login successful"),
                                      users[i].id, TokenResponse(users[i].id)))
    /\ UNCHANGED <<store, patients, call, loc, pre, hist>>

LoginRun(p) ==
    /\ pc[p] = "l_run"
    /\ LET rows == ByIdentifier(call[p].id)
           i == CHOOSE r \in rows : TRUE
       IN  IF rows = {}
           THEN /\ Done(p, AuthenticationError("Invalid credentials"))
                /\ UNCHANGED <<users, wallet>>
           ELSE IF Cardinality(rows) > 1
           THEN /\ Done(p, Unexpected("Login failed: {e}"))
                /\ UNCHANGED <<users, wallet>>
           ELSE IF ~verify_password(call[p].password[1], users[i].password_hash)
           THEN /\ Done(p, AuthenticationError("Invalid credentials"))
                /\ UNCHANGED <<users, wallet>>
           ELSE IF ~users[i].is_active
           THEN /\ Done(p, AuthenticationError("Account is inactive"))
                /\ UNCHANGED <<users, wallet>>
           ELSE IF ~users[i].is_verified
           THEN /\ Done(p, AuthenticationError(
                        "Account not verified. Please verify your email/phone"))
                /\ UNCHANGED <<users, wallet>>
           ELSE /\ users' = [users EXCEPT ![i].last_login = <<"utcnow">>]
                /\ Issue(TokenResponse(users[i].id))
                /\ Done(p, WithTokens(Response(200, "Login successful"),
                                      users[i].id, TokenResponse(users[i].id)))
    /\ UNCHANGED <<store, patients, call, loc, pre, hist>>

----------------------------------------------------------------------------
\* POST /auth/refresh: AuthService.refresh_access_token.

CallRefresh(p, refresh_token) ==
    /\ pc[p] = "idle"
    /\ Goto(p, "rf_run")
    /\ call' = [call EXCEPT ![p] =
                    [NoCall EXCEPT !.op = "refresh", !.token = <<refresh_token>>]]
    /\ pre' = [pre EXCEPT ![p] = Snapshot]
    /\ UNCHANGED <<store, db, loc, ret, hist>>

\* A slip: the is_active flag of the subject is not looked at.
RefreshRun_AnyUser(p) ==
    /\ pc[p] = "rf_run"
    /\ LET payload == decode_refresh_token(call[p].token[1])
           rows == ById(payload[1].sub)
           i == CHOOSE r \in rows : TRUE
       IN  IF payload = << >>
           THEN /\ Done(p, AuthenticationError("Invalid or expired refresh token"))
                /\ UNCHANGED wallet
           ELSE IF rows = {}
           THEN /\ Done(p, AuthenticationError("User not found or inactive"))
                /\ UNCHANGED wallet
           ELSE /\ Issue(TokenResponse(users[i].id))
                /\ Done(p, WithTokens(Response(200, ""), users[i].id,
                                      TokenResponse(users[i].id)))
    /\ UNCHANGED <<store, users, patients, call, loc, pre, hist>>

\* A slip: a refresh token is refused once a later one was issued to its
\* subject.
RefreshRun_Rotating(p) ==
    /\ pc[p] = "rf_run"
    /\ LET payload == decode_refresh_token(call[p].token[1])
           rows == ById(payload[1].sub)
           i == CHOOSE r \in rows : TRUE
       IN  IF payload = << >>
           THEN /\ Done(p, AuthenticationError("Invalid or expired refresh token"))
                /\ UNCHANGED wallet
           ELSE IF \E t \in wallet : /\ t.type = "refresh" /\ t.sub = payload[1].sub
                                     /\ t.exp > call[p].token[1].exp
           THEN /\ Done(p, AuthenticationError("Invalid or expired refresh token"))
                /\ UNCHANGED wallet
           ELSE IF rows = {} \/ ~users[i].is_active
           THEN /\ Done(p, AuthenticationError("User not found or inactive"))
                /\ UNCHANGED wallet
           ELSE /\ Issue(TokenResponse(users[i].id))
                /\ Done(p, WithTokens(Response(200, ""), users[i].id,
                                      TokenResponse(users[i].id)))
    /\ UNCHANGED <<store, users, patients, call, loc, pre, hist>>

RefreshRun(p) ==
    /\ pc[p] = "rf_run"
    /\ LET payload == decode_refresh_token(call[p].token[1])
           rows == ById(payload[1].sub)
           i == CHOOSE r \in rows : TRUE
       IN  IF payload = << >>
           THEN /\ Done(p, AuthenticationError("Invalid or expired refresh token"))
                /\ UNCHANGED wallet
           ELSE IF rows = {} \/ ~users[i].is_active
           THEN /\ Done(p, AuthenticationError("User not found or inactive"))
                /\ UNCHANGED wallet
           ELSE /\ Issue(TokenResponse(users[i].id))
                /\ Done(p, WithTokens(Response(200, ""), users[i].id,
                                      TokenResponse(users[i].id)))
    /\ UNCHANGED <<store, users, patients, call, loc, pre, hist>>

----------------------------------------------------------------------------
\* GET /auth/me, POST /auth/change-password and POST /auth/logout: the
\* bearer credential goes through get_current_user.

CallMe(p, token) ==
    /\ pc[p] = "idle"
    /\ Goto(p, "me_run")
    /\ call' = [call EXCEPT ![p] =
                    [NoCall EXCEPT !.op = "me", !.token = <<token>>]]
    /\ pre' = [pre EXCEPT ![p] = Snapshot]
    /\ UNCHANGED <<store, db, loc, ret, hist>>

CallChangePassword(p, token, old_password, new_password) ==
    /\ pc[p] = "idle"
    /\ Goto(p, "me_run")
    /\ call' = [call EXCEPT ![p] =
                    [NoCall EXCEPT !.op = "change_password", !.token = <<token>>,
                                   !.password = <<old_password, new_password>>]]
    /\ pre' = [pre EXCEPT ![p] = Snapshot]
    /\ UNCHANGED <<store, db, loc, ret, hist>>

\* POST /auth/logout: the endpoint answers once get_current_user has found
\* the user; it writes nothing.
CallLogout(p, token) ==
    /\ pc[p] = "idle"
    /\ Goto(p, "me_run")
    /\ call' = [call EXCEPT ![p] =
                    [NoCall EXCEPT !.op = "logout", !.token = <<token>>]]
    /\ pre' = [pre EXCEPT ![p] = Snapshot]
    /\ UNCHANGED <<store, db, loc, ret, hist>>

\* A slip: the bearer credential is decoded without the check of its type.
get_current_user_AnyType(p) ==
    /\ pc[p] = "me_run"
    /\ LET payload == decode_access_token_AnyType(call[p].token[1])
           rows == {i \in ById(payload[1].sub) : users[i].is_active}
       IN  IF payload = << >>
           THEN Done(p, Unauthorized("Invalid or expired token"))
           ELSE IF rows = {}
           THEN Done(p, Unauthorized("User not found or inactive"))
           ELSE Done(p, CurrentUser(payload[1].sub))
    /\ UNCHANGED <<store, db, call, loc, pre, hist>>

get_current_user(p) ==
    /\ pc[p] = "me_run"
    /\ LET payload == decode_access_token(call[p].token[1])
           rows == {i \in ById(payload[1].sub) : users[i].is_active}
       IN  IF payload = << >>
           THEN Done(p, Unauthorized("Invalid or expired token"))
           ELSE IF rows = {}
           THEN Done(p, Unauthorized("User not found or inactive"))
           ELSE Done(p, CurrentUser(payload[1].sub))
    /\ UNCHANGED <<store, db, call, loc, pre, hist>>

----------------------------------------------------------------------------
\* AuthService.change_password, for the user that get_current_user found.

\* A slip: the new password is validated before the old one is verified.
ChangePasswordRun_NewFirst(p) ==
    /\ pc[p] = "cp_run"
    /\ LET rows == ById(ret[p].user[1])
           i == CHOOSE r \in rows : TRUE
           old_password == call[p].password[1]
           new_password == call[p].password[2]
           error_msg == validate_password_strength(new_password)
       IN  IF rows = {}
           THEN Done(p, NotFoundError("User not found")) /\ UNCHANGED users
           ELSE IF error_msg # << >>
           THEN Done(p, ValidationError(error_msg[1], 0)) /\ UNCHANGED users
           ELSE IF ~verify_password(old_password, users[i].password_hash)
           THEN /\ Done(p, AuthenticationError("Invalid current password"))
                /\ UNCHANGED users
           ELSE /\ users' = [users EXCEPT
                                ![i].password_hash = hash_password(new_password)]
                /\ Done(p, Response(200, "Password changed successfully"))
    /\ UNCHANGED <<store, patients, wallet, call, loc, pre, hist>>

ChangePasswordRun(p) ==
    /\ pc[p] = "cp_run"
    /\ LET rows == ById(ret[p].user[1])
           i == CHOOSE r \in rows : TRUE
           old_password == call[p].password[1]
           new_password == call[p].password[2]
           error_msg == validate_password_strength(new_password)
       IN  IF rows = {}
           THEN Done(p, NotFoundError("User not found")) /\ UNCHANGED users
           ELSE IF ~verify_password(old_password, users[i].password_hash)
           THEN /\ Done(p, AuthenticationError("Invalid current password"))
                /\ UNCHANGED users
           ELSE IF error_msg # << >>
           THEN Done(p, ValidationError(error_msg[1], 0)) /\ UNCHANGED users
           ELSE /\ users' = [users EXCEPT
                                ![i].password_hash = hash_password(new_password)]
                /\ Done(p, Response(200, "Password changed successfully"))
    /\ UNCHANGED <<store, patients, wallet, call, loc, pre, hist>>

----------------------------------------------------------------------------
\* What an administrator does to the users table from outside these
\* endpoints: the is_active flag and the soft-delete marker.

AdminSetActive(i, active) ==
    /\ users[i].deleted_at = << >>
    /\ users[i].is_active # active
    /\ users' = [users EXCEPT ![i].is_active = active]
    /\ UNCHANGED <<store, patients, wallet, pc, call, loc, ret, pre, hist>>

AdminSoftDelete(i) ==
    /\ users[i].deleted_at = << >>
    /\ users' = [users EXCEPT ![i].deleted_at = <<"utcnow">>]
    /\ UNCHANGED <<store, patients, wallet, pc, call, loc, ret, pre, hist>>

----------------------------------------------------------------------------
\* The client receives the answer; the history of its identifier records it.

\* verify answers with one of these only after the comparison at
\* `if otp != stored_otp`.
Compared(r) == r.kind = "valid" \/ r.msg \in {MsgExhausted, MsgRemaining}

Record(h, c, r) ==
    IF c.op = "generate_and_store" /\ r.kind = "return"
    THEN [issued |-> r.otp, age |-> 0, wrong |-> 0, accepted |-> 0,
          compared |-> 0,
          winLeft |-> IF h.winLeft = 0 THEN RATE_LIMIT_WINDOW_SECONDS
                      ELSE h.winLeft,
          winCount |-> IF h.winLeft = 0 THEN 1
                       ELSE Min(h.winCount + 1, OTP_RATE_LIMIT_PER_HOUR + 1),
          obsLeft |-> h.obsLeft,
          obsCount |-> IF h.obsLeft = 0 THEN 0
                       ELSE Min(h.obsCount + 1, 2 * OTP_RATE_LIMIT_PER_HOUR)]
    ELSE IF c.op = "verify" /\ r.kind = "valid"
    THEN [h EXCEPT !.accepted = Min(h.accepted + 1, 2),
                   !.compared = Min(h.compared + 1, MaxCompared)]
    ELSE IF c.op = "verify" /\ <<c.code>> # h.issued
    THEN [h EXCEPT !.wrong = Min(h.wrong + 1, OTP_MAX_ATTEMPTS),
                   !.compared = IF Compared(r) THEN Min(h.compared + 1, MaxCompared)
                                ELSE h.compared]
    ELSE h

Return(p) ==
    /\ pc[p] = "done"
    /\ hist' = IF call[p].op \in {"generate_and_store", "verify"}
               THEN [hist EXCEPT ![call[p].id] = Record(@, call[p], ret[p])]
               ELSE hist
    /\ pc' = [pc EXCEPT ![p] = "idle"]
    /\ call' = [call EXCEPT ![p] = NoCall]
    /\ loc' = [loc EXCEPT ![p] = NoLocals]
    /\ ret' = [ret EXCEPT ![p] = NoResult]
    /\ pre' = [pre EXCEPT ![p] = NoSnapshot]
    /\ UNCHANGED <<store, db>>

\* d seconds pass.
Older(h, d) ==
    [h EXCEPT !.age = Min(h.age + d, expire_seconds),
              !.winLeft = IF h.winLeft <= d THEN 0 ELSE h.winLeft - d,
              !.winCount = IF h.winLeft <= d THEN 0 ELSE h.winCount,
              !.obsLeft = IF h.obsLeft <= d THEN 0 ELSE h.obsLeft - d,
              !.obsCount = IF h.obsLeft <= d THEN 0 ELSE h.obsCount]

Elapse(d) ==
    /\ store' = RedisExpire(store, d)
    /\ wallet' = {[t EXCEPT !.exp = IF t.exp < d THEN -1 ELSE t.exp - d] :
                        t \in wallet}
    /\ hist' = [i \in Identifiers |-> Older(hist[i], d)]
    /\ UNCHANGED <<users, patients, pc, call, loc, ret, pre>>

----------------------------------------------------------------------------
\* Calls one after the other: a call begins when no other is in progress and
\* runs to its end before the clock moves.

SeqGenerate(p, id) == Quiet /\ CallGenerate(p, id)
SeqVerify(p, id, code) == Quiet /\ CallVerify(p, id, code)
Tick == Quiet /\ Elapse(TickSeconds)

Step(p) ==
    \/ GenGetRate(p) \/ GenExists(p) \/ GenTtl(p) \/ GenSetOtp(p)
    \/ GenSetAttempts(p) \/ GenSetResend(p) \/ GenCount(p)
    \/ VerifyGetOtp(p) \/ VerifyGetAttempts(p) \/ VerifyIncr(p)
    \/ VerifyDeleteOtp(p) \/ VerifyDeleteAttempts(p)
    \/ Return(p)

\* Calls that do not overlap are all made by one client.
Caller == CHOOSE p \in Procs : TRUE

\* The keys of different identifiers are disjoint: the OTP engine is
\* exercised on one of them.
OtpIdentifiers == {"a@x.com"}

Next ==
    \/ \E id \in OtpIdentifiers : SeqGenerate(Caller, id)
    \/ \E id \in OtpIdentifiers, code \in Codes : SeqVerify(Caller, id, code)
    \/ \E p \in Procs : Step(p)
    \/ Tick

Spec == Init /\ [][Next]_vars

----------------------------------------------------------------------------
\* The same calls on a coarser clock, with an observer who may begin an hour
\* of observation at any generation that was just answered.

HourTickSeconds == 300

HourTick == Quiet /\ Elapse(HourTickSeconds)

Observe(id) ==
    /\ Quiet
    /\ hist[id].issued # << >>
    /\ hist[id].age = 0
    /\ hist[id].obsLeft = 0
    /\ hist' = [hist EXCEPT ![id].obsLeft = RATE_LIMIT_WINDOW_SECONDS,
                            ![id].obsCount = 1]
    /\ UNCHANGED <<store, db, pc, call, loc, ret, pre>>

NextHour ==
    \/ \E id \in OtpIdentifiers : SeqGenerate(Caller, id)
    \/ \E id \in OtpIdentifiers, code \in Codes : SeqVerify(Caller, id, code)
    \/ \E p \in Procs : Step(p)
    \/ HourTick
    \/ \E id \in OtpIdentifiers : Observe(id)

SpecHour == Init /\ [][NextHour]_vars

----------------------------------------------------------------------------
\* Calls one after the other, during which time may pass: a key may expire
\* between two commands of one call.

TimedTickSeconds == 900

Pass == Elapse(TimedTickSeconds)

NextTimed ==
    \/ \E id \in OtpIdentifiers : SeqGenerate(Caller, id)
    \/ \E id \in OtpIdentifiers, code \in Codes : SeqVerify(Caller, id, code)
    \/ \E p \in Procs : Step(p)
    \/ Pass

SpecTimed == Init /\ [][NextTimed]_vars

----------------------------------------------------------------------------
\* The endpoints, called one after the other for one person's email and
\* phone, with an administrator at work and a clock that steps by the life
\* of a refresh token.  A client presents any token handed out so far,
\* or one signed with a key that is not the server's.

AuthTickSeconds == 604800

AuthTick == Quiet /\ Elapse(AuthTickSeconds)

AuthEmails == {"a@x.com"}
AuthPhones == {"+971501111111"}
Usernames == AuthEmails \cup AuthPhones \cup {"nobody@x.com"}

Abc12345 == <<"A", "b", "c", "1", "2", "3", "4", "5", "!">>
Xyz98765 == <<"X", "y", "z", "9", "8", "7", "6", "5", "!">>
abc12345 == <<"a", "b", "c", "1", "2", "3", "4", "5", "!">>

Forged == {jwt_encode([sub |-> 1, type |-> type, exp |-> 60], "another key") :
              type \in {"access", "refresh"}}
Presented == wallet \cup Forged

AuthStep(p) ==
    \/ Step(p)
    \/ RegisterCheck(p) \/ RegisterInsert(p)
    \/ VerifyOtpUser(p)
    \/ ResendUser(p)
    \/ LoginRun(p)
    \/ RefreshRun(p)
    \/ get_current_user(p)

NextAuth ==
    \/ \E email \in AuthEmails, phone \in AuthPhones,
          password \in {Abc12345, abc12345} :
            Quiet /\ CallRegister(Caller, email, phone, password)
    \/ \E identifier \in AuthEmails \cup AuthPhones, otp \in Codes :
            Quiet /\ CallVerifyOtp(Caller, identifier, otp)
    \/ \E identifier \in AuthEmails \cup AuthPhones :
            Quiet /\ CallResendOtp(Caller, identifier)
    \/ \E username \in Usernames, password \in {Abc12345, Xyz98765} :
            Quiet /\ CallLogin(Caller, username, password)
    \/ \E token \in Presented : Quiet /\ CallRefresh(Caller, token)
    \/ \E token \in Presented : Quiet /\ CallMe(Caller, token)
    \/ \E p \in Procs : AuthStep(p)
    \/ \E i \in DOMAIN users, active \in BOOLEAN : Quiet /\ AdminSetActive(i, active)
    \/ \E i \in DOMAIN users : Quiet /\ AdminSoftDelete(i)
    \/ AuthTick

SpecAuth == Init /\ [][NextAuth]_vars

----------------------------------------------------------------------------
\* The same endpoints and change-password, without the administrator.

Call(p) ==
    \/ \E email \in AuthEmails, phone \in AuthPhones,
          password \in {Abc12345, abc12345} :
            CallRegister(p, email, phone, password)
    \/ \E identifier \in AuthEmails \cup AuthPhones \cup {Missing}, otp \in Codes :
            CallVerifyOtp(p, identifier, otp)
    \/ \E identifier \in AuthEmails \cup AuthPhones \cup {Missing} :
            CallResendOtp(p, identifier)
    \/ \E username \in Usernames, password \in {Abc12345, Xyz98765} :
            CallLogin(p, username, password)
    \/ \E token \in Presented : CallRefresh(p, token)
    \/ \E token \in Presented : CallMe(p, token)
    \/ \E token \in Presented : CallLogout(p, token)
    \/ \E token \in Presented, old_password \in {Abc12345, Xyz98765},
          new_password \in {Xyz98765, abc12345} :
            CallChangePassword(p, token, old_password, new_password)

NextAccount ==
    \/ Quiet /\ Call(Caller)
    \/ \E p \in Procs : AuthStep(p) \/ ChangePasswordRun(p)
    \/ AuthTick

SpecAccount == Init /\ [][NextAccount]_vars

----------------------------------------------------------------------------
\* Registrations one after the other, for two emails and two phones, with
\* resends of the OTP, an administrator who soft-deletes, and a store that
\* may be out of reach.

\* The store cannot be reached: the command that a call is about to send
\* raises (RuntimeError("Redis client not connected"), or the connection
\* error of the client library), and the endpoint answers with status 500.
StoreUnavailable(p) ==
    /\ pc[p] \in {"g_get_rate", "g_exists", "g_ttl", "g_set_otp",
                  "g_set_attempts", "g_set_resend", "g_count"}
    /\ call[p].op \in {"register_user", "resend_otp"}
    /\ Done(p, Caught(Raise("RuntimeError", 0, "Redis client not connected", 0),
                      IF call[p].op = "register_user"
                      THEN "Registration failed: {e}"
                      ELSE "Failed to resend OTP: {e}"))
    /\ UNCHANGED <<store, db, call, loc, pre, hist>>

RegisterStep(p) ==
    \/ RegisterCheck(p) \/ RegisterInsert(p)
    \/ GenGetRate(p) \/ GenExists(p) \/ GenTtl(p) \/ GenSetOtp(p)
    \/ GenSetAttempts(p) \/ GenSetResend(p) \/ GenCount(p)
    \/ Return(p)

NextRegister ==
    \/ \E email \in Emails, phone \in Phones, password \in {Abc12345, abc12345} :
            Quiet /\ CallRegister(Caller, email, phone, password)
    \/ \E identifier \in Emails : Quiet /\ CallResendOtp(Caller, identifier)
    \/ \E p \in Procs : RegisterStep(p) \/ ResendUser(p) \/ StoreUnavailable(p)
    \/ \E i \in DOMAIN users : Quiet /\ AdminSoftDelete(i)
    \/ AuthTick

SpecRegister == Init /\ [][NextRegister]_vars

----------------------------------------------------------------------------
\* The verify calls of two clients overlap, one command to the store at a
\* time; an OTP is generated while no call is in progress.

NextOverlap ==
    \/ \E id \in OtpIdentifiers : SeqGenerate(Caller, id)
    \/ \E p \in Procs, id \in OtpIdentifiers, code \in Codes :
            /\ \A q \in Procs : call[q].op # "generate_and_store"
            /\ CallVerify(p, id, code)
    \/ \E p \in Procs : Step(p)
    \/ AuthTick

SpecOverlap == Init /\ [][NextOverlap]_vars

----------------------------------------------------------------------------
\* A new OTP is generated while a verify call that has read the previous
\* one is still in progress: one client generates, when the other is idle
\* or past its read of the OTP; the other verifies, and begins when no
\* generation is in progress.

SwapTickSeconds == 150

PastRead(p) ==
    pc[p] \in {"idle", "v_get_attempts", "v_incr", "v_del_otp", "v_del_attempts", "done"}

NextSwap ==
    \/ \E id \in OtpIdentifiers :
            /\ \A q \in Procs : PastRead(q)
            /\ CallGenerate(Caller, id)
    \/ \E p \in Procs \ {Caller}, id \in OtpIdentifiers, code \in Codes :
            /\ pc[Caller] = "idle"
            /\ CallVerify(p, id, code)
    \/ \E p \in Procs : Step(p)
    \/ Quiet /\ Elapse(SwapTickSeconds)

SpecSwap == Init /\ [][NextSwap]_vars

----------------------------------------------------------------------------
\* The generate_and_store calls of two clients overlap, one command to the
\* store at a time; the clock moves between calls.

GenerateStep(p) ==
    \/ GenGetRate(p) \/ GenExists(p) \/ GenTtl(p) \/ GenSetOtp(p)
    \/ GenSetAttempts(p) \/ GenSetResend(p) \/ GenCount(p)
    \/ Return(p)

NextGenerate ==
    \/ \E p \in Procs, id \in OtpIdentifiers : CallGenerate(p, id)
    \/ \E p \in Procs : GenerateStep(p)
    \/ Quiet /\ Pass

SpecGenerate == Init /\ [][NextGenerate]_vars

----------------------------------------------------------------------------
\* OTPService.can_resend: EXISTS on the Resend Cooldown Marker, then its TTL.

CallCanResend(p, id) ==
    /\ pc[p] = "idle"
    /\ Goto(p, "cr_exists")
    /\ call' = [call EXCEPT ![p] = [NoCall EXCEPT !.op = "can_resend", !.id = id]]
    /\ pre' = [pre EXCEPT ![p] = Snapshot]
    /\ UNCHANGED <<store, db, loc, ret, hist>>

\* if exists(resend_key): ... ; return True, 0
CanResendExists(p) ==
    /\ pc[p] = "cr_exists"
    /\ IF RedisExists(store, _get_resend_key(call[p].id))
       THEN Goto(p, "cr_ttl") /\ UNCHANGED ret
       ELSE Done(p, Resendable(TRUE, 0))
    /\ UNCHANGED <<store, db, call, loc, pre, hist>>

\* ttl = ttl(resend_key); return False, ttl
CanResendTtl(p) ==
    /\ pc[p] = "cr_ttl"
    /\ Done(p, Resendable(FALSE, RedisTtl(store, _get_resend_key(call[p].id))))
    /\ UNCHANGED <<store, db, call, loc, pre, hist>>

\* Generations and can_resend one after the other on a clock fine enough to
\* meet the marker in the middle of the cooldown.
CooldownTickSeconds == 10

NextCooldown ==
    \/ \E id \in OtpIdentifiers : SeqGenerate(Caller, id)
    \/ \E id \in OtpIdentifiers : Quiet /\ CallCanResend(Caller, id)
    \/ \E p \in Procs : GenerateStep(p) \/ CanResendExists(p) \/ CanResendTtl(p)
    \/ Quiet /\ Elapse(CooldownTickSeconds)

SpecCooldown == Init /\ [][NextCooldown]_vars

----------------------------------------------------------------------------
\* resend_otp next to generate_and_store itself, for one user who registers
\* and whom the administrator may soft-delete.

NextResend ==
    \/ \E email \in AuthEmails, phone \in AuthPhones :
            Quiet /\ CallRegister(Caller, email, phone, Abc12345)
    \/ \E identifier \in OtpIdentifiers : Quiet /\ CallResendOtp(Caller, identifier)
    \/ \E identifier \in OtpIdentifiers : SeqGenerate(Caller, identifier)
    \/ \E p \in Procs : RegisterStep(p) \/ ResendUser(p)
    \/ \E i \in DOMAIN users : Quiet /\ AdminSoftDelete(i)
    \/ HourTick

SpecResend == Init /\ [][NextResend]_vars

----------------------------------------------------------------------------
\* Registrations of two clients that overlap, and resends of the OTP in
\* between.  The insert of a row and the commit are one step: a flush that
\* meets the uncommitted row of another transaction waits for its commit and
\* then fails like one that meets a committed row.

NextRegisterRace ==
    \/ \E p \in Procs, email \in Emails, phone \in Phones :
            CallRegister(p, email, phone, Abc12345)
    \/ \E identifier \in Emails : Quiet /\ CallResendOtp(Caller, identifier)
    \/ \E p \in Procs : RegisterStep(p) \/ ResendUser(p)

SpecRegisterRace == Init /\ [][NextRegisterRace]_vars

----------------------------------------------------------------------------
\* Properties of the OTP engine under calls that do not overlap.

Finished(p, op) == pc[p] = "done" /\ call[p].op = op
Told(p) == hist[call[p].id]

\* C1: after generate_and_store(id) returned code c, the first verify(id, c)
\* made before the OTP expires and before wrong submissions exhaust it is
\* accepted, and every later verify(id, c) without a new generation fails
\* with "OTP expired or not found".
C1_SingleUse ==
    \A p \in Procs :
        Finished(p, "verify") /\ Told(p).issued = <<call[p].code>> =>
            /\ ( /\ Told(p).accepted = 0
                 /\ Told(p).age < OTP_EXPIRE_MINUTES * 60
                 /\ Told(p).wrong < OTP_MAX_ATTEMPTS
                 => ret[p] = VerifyResult(TRUE, "", 0) )
            /\ ( Told(p).accepted >= 1
                 => ret[p] = VerifyResult(FALSE, MsgNotFound, 0) )

\* The code was accepted once and is submitted a second time.
C1_Witness ==
    \E p \in Procs :
        /\ Finished(p, "verify")
        /\ Told(p).issued = <<call[p].code>>
        /\ Told(p).accepted = 1
        /\ Told(p).age < OTP_EXPIRE_MINUTES * 60
        /\ ret[p].msg = MsgNotFound

\* C2: with max_attempts = 3, three consecutive wrong submissions against a
\* fresh OTP report 2 attempts remaining, then 1, then exhaustion; the number
\* reported is max_attempts minus the attempts counter after the increment;
\* the exhausting call deletes the OTP record and the attempts counter; and
\* the correct code submitted after that fails.
C2_WrongSubmissions ==
    \A p \in Procs :
        Finished(p, "verify") /\ Told(p).issued # << >> =>
            LET id == call[p].id
                fresh == Told(p).accepted = 0 /\ Told(p).age < OTP_EXPIRE_MINUTES * 60
                wrong == <<call[p].code>> # Told(p).issued
            IN  /\ ( fresh /\ wrong /\ Told(p).wrong = 0
                     => ret[p] = VerifyResult(FALSE, MsgRemaining, 2) )
                /\ ( fresh /\ wrong /\ Told(p).wrong = 1
                     => ret[p] = VerifyResult(FALSE, MsgRemaining, 1) )
                /\ ( fresh /\ wrong /\ Told(p).wrong = 2
                     => /\ ret[p] = VerifyResult(FALSE, MsgExhausted, 0)
                        /\ store[_get_otp_key(id)] = << >>
                        /\ store[_get_attempts_key(id)] = << >> )
                /\ ( ret[p].msg = MsgRemaining
                     => /\ store[_get_attempts_key(id)] # << >>
                        /\ ret[p].n = OTP_MAX_ATTEMPTS
                                        - store[_get_attempts_key(id)][1].val )
                /\ ( ~wrong /\ Told(p).wrong >= OTP_MAX_ATTEMPTS
                     => ret[p].kind = "invalid" )

\* Three wrong submissions were answered and the correct code follows in time.
C2_Witness ==
    \E p \in Procs :
        /\ Finished(p, "verify")
        /\ Told(p).issued = <<call[p].code>>
        /\ Told(p).wrong = OTP_MAX_ATTEMPTS
        /\ Told(p).age < OTP_EXPIRE_MINUTES * 60
        /\ ret[p].kind = "invalid"

\* C3: for an identifier with no live OTP record and any submitted code,
\* verify fails with "OTP expired or not found" and changes no key of the
\* store; verify never creates an OTP record, so after lockout a code is
\* accepted again only after a successful generate_and_store.
C3_NoLiveOtp ==
    \A p \in Procs :
        /\ ( Finished(p, "verify") /\ pre[p].store[_get_otp_key(call[p].id)] = << >>
             => /\ ret[p] = VerifyResult(FALSE, MsgNotFound, 0)
                /\ store = pre[p].store )
        /\ ( call[p].op = "verify" /\ pre[p].store[_get_otp_key(call[p].id)] = << >>
             => store[_get_otp_key(call[p].id)] = << >> )
        /\ ( Finished(p, "verify") /\ ret[p].kind = "valid"
             => Told(p).wrong < OTP_MAX_ATTEMPTS /\ Told(p).accepted = 0 )

\* After lockout the code that was handed out is submitted again.
C3_Witness ==
    \E p \in Procs :
        /\ Finished(p, "verify")
        /\ Told(p).issued = <<call[p].code>>
        /\ Told(p).wrong = OTP_MAX_ATTEMPTS
        /\ pre[p].store[_get_otp_key(call[p].id)] = << >>
        /\ pre[p].store[_get_rate_limit_key(call[p].id)] # << >>
        /\ ret[p].msg = MsgNotFound
        /\ store = pre[p].store

\* C4, when no time passes during a call: a generate_and_store(id) call made
\* less than resend_cooldown_seconds after a successful one, and not rejected
\* by the rate limit, fails with the resend-too-soon OTPError, and the
\* seconds in that error are more than 0.
C4_ResendTooSoon ==
    \A p \in Procs :
        /\ Finished(p, "generate_and_store")
        /\ Told(p).issued # << >>
        /\ Told(p).age < OTP_RESEND_COOLDOWN_SECONDS
        /\ ret[p].kind # "RateLimitError"
        => /\ ret[p].kind = "OTPError"
           /\ ret[p].status = 400
           /\ ret[p].n > 0

\* A second generation is asked for within the cooldown.
C4_Witness ==
    \E p \in Procs :
        /\ Finished(p, "generate_and_store")
        /\ Told(p).issued # << >>
        /\ Told(p).age < OTP_RESEND_COOLDOWN_SECONDS
        /\ ret[p] = OTPError(OTP_RESEND_COOLDOWN_SECONDS)

\* C4, when time may pass during a call: the seconds carried in every
\* resend-too-soon OTPError of a call that found the marker are more than 0.
C4_ErrorSeconds ==
    \A p \in Procs :
        /\ Finished(p, "generate_and_store")
        /\ pre[p].store[_get_resend_key(call[p].id)] # << >>
        /\ ret[p].kind = "OTPError"
        => ret[p].n > 0

\* C5: whenever the Hourly Rate Counter is at or above the ceiling,
\* generate_and_store fails with RateLimitError, whether or not a Resend
\* Cooldown Marker is present.
C5_RateLimitFirst ==
    \A p \in Procs :
        /\ Finished(p, "generate_and_store")
        /\ pre[p].store[_get_rate_limit_key(call[p].id)] # << >>
        /\ pre[p].store[_get_rate_limit_key(call[p].id)][1].val >= OTP_RATE_LIMIT_PER_HOUR
        => /\ ret[p].kind = "RateLimitError"
           /\ ret[p].status = 429

\* The counter is at the ceiling and the cooldown marker is present.
C5_Witness ==
    \E p \in Procs :
        /\ Finished(p, "generate_and_store")
        /\ pre[p].store[_get_rate_limit_key(call[p].id)] # << >>
        /\ pre[p].store[_get_rate_limit_key(call[p].id)][1].val >= OTP_RATE_LIMIT_PER_HOUR
        /\ pre[p].store[_get_resend_key(call[p].id)] # << >>
        /\ ret[p].kind = "RateLimitError"

\* C7, when no time passes during a call: after generate_and_store(id)
\* returned (c, s): the OTP record holds c
\* with TTL s = otp_expire_minutes * 60, the attempts counter is 0 with the
\* same TTL, the Resend Cooldown Marker exists with TTL
\* resend_cooldown_seconds, and the Hourly Rate Counter is one greater than
\* before the call, or 1 with a TTL of 3600 seconds if it was absent.
C7_GenerateStores ==
    \A p \in Procs :
        Finished(p, "generate_and_store") /\ ret[p].kind = "return" =>
            LET id == call[p].id
                c == ret[p].otp[1]
                s == ret[p].secs
                before == pre[p].store[_get_rate_limit_key(id)]
            IN  /\ s = OTP_EXPIRE_MINUTES * 60
                /\ store[_get_otp_key(id)] = <<[val |-> c, ttl |-> s]>>
                /\ store[_get_attempts_key(id)] = <<[val |-> 0, ttl |-> s]>>
                /\ store[_get_resend_key(id)] # << >>
                /\ store[_get_resend_key(id)][1].ttl = OTP_RESEND_COOLDOWN_SECONDS
                /\ store[_get_rate_limit_key(id)] =
                       IF before = << >>
                       THEN <<[val |-> 1, ttl |-> 3600]>>
                       ELSE <<[val |-> before[1].val + 1, ttl |-> before[1].ttl]>>

\* A new code replaces a live one of an identifier that generated before.
C7_Witness ==
    \E p \in Procs :
        /\ Finished(p, "generate_and_store")
        /\ ret[p].kind = "return"
        /\ pre[p].store[_get_otp_key(call[p].id)] # << >>
        /\ pre[p].store[_get_otp_key(call[p].id)][1].val # ret[p].otp[1]
        /\ pre[p].store[_get_attempts_key(call[p].id)][1].val > 0
        /\ pre[p].store[_get_rate_limit_key(call[p].id)] # << >>

\* C7, when time may pass during a call: after generate_and_store returned,
\* the Hourly Rate Counter, until it expires, is one greater than the call
\* found it, or 1 if the call found none, and it has at most 3600 seconds
\* to live.
C7_CounterAfter ==
    \A p \in Procs :
        Finished(p, "generate_and_store") /\ ret[p].kind = "return" =>
            LET found == loc[p].rate_limit_count
                now == store[_get_rate_limit_key(call[p].id)]
            IN  now # << >> =>
                    /\ now[1].val = IF found = << >> THEN 1 ELSE found[1] + 1
                    /\ now[1].ttl >= 1
                    /\ now[1].ttl <= RATE_LIMIT_WINDOW_SECONDS

----------------------------------------------------------------------------
\* Properties of the Hourly Rate Counter.

\* C6 as claimed: in every period of one hour, whatever its start, at most
\* OTP_RATE_LIMIT_PER_HOUR generate_and_store calls of an identifier succeed.
C6_AnyHour ==
    \A id \in Identifiers : hist[id].obsCount <= OTP_RATE_LIMIT_PER_HOUR

\* C6 as amended: in the hour that begins with the generation that creates
\* the Hourly Rate Counter, at most OTP_RATE_LIMIT_PER_HOUR calls succeed and
\* each further call in it fails with RateLimitError; an hour with another
\* start holds at most 2 * OTP_RATE_LIMIT_PER_HOUR - 1 successful calls.
C6_CounterHour ==
    /\ \A id \in Identifiers :
        /\ hist[id].winCount <= OTP_RATE_LIMIT_PER_HOUR
        /\ hist[id].obsCount <= 2 * OTP_RATE_LIMIT_PER_HOUR - 1
    /\ \A p \in Procs :
        /\ Finished(p, "generate_and_store")
        /\ Told(p).winCount >= OTP_RATE_LIMIT_PER_HOUR
        => ret[p] = RateLimitError

\* The counter's hour is full and one more generation is asked for in it.
C6_Witness ==
    \E p \in Procs :
        /\ Finished(p, "generate_and_store")
        /\ Told(p).winCount = OTP_RATE_LIMIT_PER_HOUR
        /\ Told(p).winLeft > 0
        /\ Told(p).age > 0
        /\ ret[p] = RateLimitError

\* C8: the Hourly Rate Counter, when it exists, carries an expiration of at
\* most one hour, also when it expires between the read at the start of
\* generate_and_store and the increment at its end.
C8_CounterExpires ==
    \A id \in Identifiers :
        store[_get_rate_limit_key(id)] # << >> =>
            /\ store[_get_rate_limit_key(id)][1].ttl >= 1
            /\ store[_get_rate_limit_key(id)][1].ttl <= 3600

----------------------------------------------------------------------------
\* Properties of the tokens and of login.

Arg(p) == call[p].token[1]

\* C9: a validly signed, unexpired token never validates as the other kind:
\* decode_access_token returns no claims for a token made by
\* create_refresh_token and decode_refresh_token returns none for a token
\* made by create_access_token; so a refresh token presented as bearer
\* credential is answered 401 and an access token presented to refresh is
\* answered with AuthenticationError.
C9_TokenKinds ==
    /\ \A t \in wallet :
          /\ t.type = "refresh" => decode_access_token(t) = << >>
          /\ t.type = "access" => decode_refresh_token(t) = << >>
    /\ \A p \in Procs :
          /\ Finished(p, "me") /\ Arg(p) \in wallet /\ Arg(p).type = "refresh"
                => ret[p] = Unauthorized("Invalid or expired token")
          /\ Finished(p, "refresh") /\ Arg(p) \in wallet /\ Arg(p).type = "access"
                => ret[p] = AuthenticationError("Invalid or expired refresh token")

\* An unexpired refresh token of an active user was presented as bearer
\* credential, and an unexpired access token is held as well.
C9_Witness ==
    \E p \in Procs :
        /\ Finished(p, "me")
        /\ Arg(p) \in wallet /\ Arg(p).type = "refresh" /\ Arg(p).exp >= 0
        /\ \E i \in ById(Arg(p).sub) : users[i].is_active
        /\ ret[p].status = 401
        /\ \E t \in wallet : t.type = "access" /\ t.exp >= 0

\* The non-deleted users that a username matched when the call began.
Matched(p) ==
    {i \in DOMAIN pre[p].users :
        /\ pre[p].users[i].email = call[p].id \/ pre[p].users[i].phone = call[p].id
        /\ pre[p].users[i].deleted_at = << >>}

WrongPassword(p) ==
    \E i \in Matched(p) :
        ~verify_password(call[p].password[1], pre[p].users[i].password_hash)

\* C10: login fails with AuthenticationError, status 401, "Invalid
\* credentials" both when no non-deleted user matches the username and when
\* a user matches but the password is wrong, whatever that user's is_active
\* and is_verified flags; no token is issued and no stored state changes.
C10_GenericFailure ==
    \A p \in Procs :
        Finished(p, "login") /\ (Matched(p) = {} \/ WrongPassword(p))
            => /\ ret[p] = AuthenticationError("Invalid credentials")
               /\ ret[p].tokens = << >>
               /\ users = pre[p].users /\ patients = pre[p].patients
               /\ wallet = pre[p].wallet /\ store = pre[p].store

\* A wrong password was given for an account that is inactive and unverified.
C10_Witness ==
    \E p \in Procs :
        /\ Finished(p, "login")
        /\ WrongPassword(p)
        /\ \E i \in Matched(p) : ~users[i].is_active /\ ~users[i].is_verified
        /\ ret[p].status = 401

\* The user that a username matched, with the password that was given.
RightPassword(p) ==
    /\ Matched(p) # {}
    /\ \A i \in Matched(p) :
          verify_password(call[p].password[1], pre[p].users[i].password_hash)

\* C11: login with the correct password fails with status 401 and the
\* "inactive" message for an inactive account, whatever its verified flag,
\* and with the "not verified" message for an active account that is not
\* verified; both messages differ from "Invalid credentials"; in neither
\* case is a token issued or last_login updated.
C11_FlagFailures ==
    \A p \in Procs :
        Finished(p, "login") /\ RightPassword(p) =>
            \A i \in Matched(p) :
                /\ ~pre[p].users[i].is_active
                    => ret[p] = AuthenticationError("Account is inactive")
                /\ pre[p].users[i].is_active /\ ~pre[p].users[i].is_verified
                    => ret[p] = AuthenticationError(
                           "Account not verified. Please verify your email/phone")
                /\ ~pre[p].users[i].is_active \/ ~pre[p].users[i].is_verified
                    => /\ ret[p].status = 401
                       /\ ret[p].msg # "Invalid credentials"
                       /\ ret[p].tokens = << >>
                       /\ wallet = pre[p].wallet
                       /\ users = pre[p].users

\* The correct password was given for an account that is inactive and not
\* verified.
C11_Witness ==
    \E p \in Procs :
        /\ Finished(p, "login")
        /\ RightPassword(p)
        /\ \E i \in Matched(p) : ~users[i].is_active /\ ~users[i].is_verified
        /\ ret[p].msg = "Account is inactive"

\* The call of client p is a verify_otp that submitted, for an email or
\* phone of user row u, the code that was stored for it when the call began.
VerifiedBy(p, u) ==
    /\ call[p].op = "verify_otp"
    /\ call[p].id \in {u.email, u.phone}
    /\ pre[p].store[_get_otp_key(call[p].id)] # << >>
    /\ pre[p].store[_get_otp_key(call[p].id)][1].val = call[p].code

\* C12: a user is created with is_verified = false; is_verified becomes true
\* only in a verify_otp call whose OTP check succeeded for that user's email
\* or phone; and no step of register, verify_otp, resend_otp, login, refresh
\* or change_password sets is_verified, email_verified or phone_verified
\* back to false.
C12_OneWay ==
    [][\A i \in DOMAIN users' :
          IF i \notin DOMAIN users
          THEN /\ ~users'[i].is_verified
               /\ ~users'[i].email_verified
               /\ ~users'[i].phone_verified
          ELSE /\ users[i].is_verified => users'[i].is_verified
               /\ users[i].email_verified => users'[i].email_verified
               /\ users[i].phone_verified => users'[i].phone_verified
               /\ ~users[i].is_verified /\ users'[i].is_verified
                    => \E p \in Procs : VerifiedBy(p, users[i])]_vars

\* A verified user has changed the password, after a login.
C12_Witness ==
    \E p \in Procs :
        /\ Finished(p, "change_password")
        /\ ret[p].status = 200
        /\ \E i \in DOMAIN users :
              /\ users[i].is_verified /\ users[i].email_verified
              /\ users[i].last_login # << >>

----------------------------------------------------------------------------
\* Properties of registration.

\* A non-deleted user had the email or the phone of the registration when
\* the call began.
Taken(p) ==
    \E i \in DOMAIN pre[p].users :
        /\ pre[p].users[i].deleted_at = << >>
        /\ \/ pre[p].users[i].email = call[p].id
           \/ pre[p].users[i].phone = call[p].phone

Refused(p) ==
    /\ ret[p].kind = "DuplicateError"
    /\ ret[p].status = 409
    /\ users = pre[p].users
    /\ patients = pre[p].patients
    /\ store = pre[p].store

\* C13 as claimed: a registration whose email or phone is that of an
\* existing non-deleted user fails with DuplicateError (409), whatever its
\* other fields, and creates no row and no OTP state.
C13_AnyFields ==
    \A p \in Procs :
        Finished(p, "register_user") /\ Taken(p) => Refused(p)

\* C13, for a password that satisfies the policy: a registration whose
\* email or phone is that of an existing non-deleted user fails with
\* DuplicateError (409) and creates no row and no OTP state; with a password
\* that does not, it fails with ValidationError and creates none either.
C13_Duplicate ==
    \A p \in Procs :
        Finished(p, "register_user") /\ Taken(p) =>
            IF validate_password_strength(call[p].password[1]) = << >>
            THEN Refused(p)
            ELSE /\ ret[p].kind = "ValidationError"
                 /\ users = pre[p].users
                 /\ patients = pre[p].patients
                 /\ store = pre[p].store

\* A registration with a new email and the phone of an existing user, and a
\* password that satisfies the policy.
C13_Witness ==
    \E p \in Procs :
        /\ Finished(p, "register_user")
        /\ validate_password_strength(call[p].password[1]) = << >>
        /\ \E i \in DOMAIN pre[p].users :
              /\ pre[p].users[i].deleted_at = << >>
              /\ pre[p].users[i].phone = call[p].phone
        /\ \A i \in DOMAIN pre[p].users : pre[p].users[i].email # call[p].id
        /\ Refused(p)

\* Another call inserted, after the call of p began, a row with the email
\* or the phone that p registers.
Overtaken(p) ==
    /\ ~Taken(p)
    /\ \E i \in DOMAIN users :
          /\ i \notin DOMAIN pre[p].users
          /\ loc[p].user # <<i>>
          /\ users[i].email = call[p].id \/ users[i].phone = call[p].phone

\* C14: when two register calls with the same email or the same phone both
\* pass the existence checks before either inserts, one user is created and
\* the call that loses is answered with DuplicateError (409), not with 500.
C14_RaceReported ==
    /\ \A i, j \in DOMAIN users :
          i # j => users[i].email # users[j].email /\ users[i].phone # users[j].phone
    /\ \A p \in Procs :
          Finished(p, "register_user") /\ Overtaken(p)
              => /\ ret[p].kind = "DuplicateError"
                 /\ ret[p].status = 409
                 /\ loc[p].user = << >>

\* The token presented by p was signed with the key of the service, has not
\* expired, is of type refresh, and names a user that was neither deleted
\* nor inactive when the call began.
Refreshable(p) ==
    /\ Arg(p).sig = JWT_SECRET_KEY
    /\ Arg(p).exp >= 0
    /\ Arg(p).type = "refresh"
    /\ \E i \in DOMAIN pre[p].users :
          /\ pre[p].users[i].id = Arg(p).sub
          /\ pre[p].users[i].deleted_at = << >>
          /\ pre[p].users[i].is_active

\* C15: refresh(t) returns a token pair exactly when t is an unexpired,
\* validly signed refresh token of an existing, non-deleted, active user,
\* and fails with AuthenticationError (401) otherwise; both new tokens carry
\* the subject of t, and neither the tables nor the store are written.
C15_Refresh ==
    \A p \in Procs :
        Finished(p, "refresh") =>
            /\ store = pre[p].store
            /\ users = pre[p].users
            /\ patients = pre[p].patients
            /\ IF Refreshable(p)
               THEN /\ ret[p].kind = "response" /\ ret[p].status = 200
                    /\ Len(ret[p].tokens) = 1
                    /\ ret[p].tokens[1].access_token.sub = Arg(p).sub
                    /\ ret[p].tokens[1].access_token.type = "access"
                    /\ ret[p].tokens[1].refresh_token.sub = Arg(p).sub
                    /\ ret[p].tokens[1].refresh_token.type = "refresh"
               ELSE /\ ret[p].kind = "AuthenticationError"
                    /\ ret[p].status = 401
                    /\ ret[p].tokens = << >>

\* A refresh token that is still valid was refused because its user had
\* been deactivated.
C15_Witness ==
    \E p \in Procs :
        /\ Finished(p, "refresh")
        /\ decode_refresh_token(Arg(p)) # << >>
        /\ \E i \in ById(Arg(p).sub) : ~users[i].is_active
        /\ ret[p].status = 401

----------------------------------------------------------------------------
\* Properties of change_password.

\* The user that the bearer credential of p named when the call began.
Holder(p) ==
    IF decode_access_token(Arg(p)) = << >> THEN {}
    ELSE {i \in DOMAIN pre[p].users :
            /\ pre[p].users[i].id = Arg(p).sub
            /\ pre[p].users[i].deleted_at = << >>
            /\ pre[p].users[i].is_active}

\* What login does with a password and the stored hash of user i.
Accepts(i, password) == verify_password(password, users[i].password_hash)

\* The outcome of change_password for the user i that called it.
Changed(p, i) ==
    LET old_password == call[p].password[1]
        new_password == call[p].password[2]
        stored == pre[p].users[i].password_hash
        weak == validate_password_strength(new_password)
    IN  /\ ~verify_password(old_password, stored)
            => /\ ret[p].kind = "AuthenticationError" /\ ret[p].status = 401
               /\ users = pre[p].users
        /\ verify_password(old_password, stored) /\ weak # << >>
            => /\ ret[p].kind = "ValidationError" /\ ret[p].msg = weak[1]
               /\ users = pre[p].users
        /\ verify_password(old_password, stored) /\ weak = << >>
            => /\ ret[p].kind = "response" /\ ret[p].status = 200
               /\ users[i].password_hash = hash_password(new_password)
               /\ Accepts(i, new_password)

\* C16 as stated: after every successful change_password, login rejects
\* old_password.
C16_OldRejected ==
    \A p \in Procs :
        Finished(p, "change_password") => \A i \in Holder(p) :
               /\ Changed(p, i)
               /\ ret[p].status = 200 => ~Accepts(i, call[p].password[1])

\* C16: change_password fails with AuthenticationError when old_password
\* does not match the stored hash, also when the new password is weak; it
\* fails with the weak-password ValidationError when the old one matches and
\* the new one violates the policy; both failures leave the hash as it was;
\* on success the hash is replaced, login accepts new_password, and it
\* rejects old_password when the two differ.
C16_ChangePassword ==
    \A p \in Procs :
        Finished(p, "change_password") => \A i \in Holder(p) :
               /\ Changed(p, i)
               /\ ret[p].status = 200 /\ call[p].password[1] # call[p].password[2]
                    => ~Accepts(i, call[p].password[1])

\* A change to a different password succeeded, and the old one no longer
\* opens the account.
C16_Witness ==
    \E p \in Procs :
        Finished(p, "change_password") /\ \E i \in Holder(p) :
        /\ ret[p].status = 200
        /\ call[p].password[1] # call[p].password[2]
        /\ Accepts(i, call[p].password[2])
        /\ ~Accepts(i, call[p].password[1])

----------------------------------------------------------------------------
\* Properties of resend_otp.

\* OTPService.generate_and_store as one call on store s that draws the code
\* otp: the store it leaves and what it returns or raises.
generate_and_store(s, identifier, otp) ==
    LET rate_limit_key == _get_rate_limit_key(identifier)
        resend_key == _get_resend_key(identifier)
        rate_limit_count == RedisGet(s, rate_limit_key)
        s1 == RedisSet(s, _get_otp_key(identifier), otp, expire_seconds)
        s2 == RedisSet(s1, _get_attempts_key(identifier), 0, expire_seconds)
        s3 == RedisSet(s2, resend_key, 1, OTP_RESEND_COOLDOWN_SECONDS)
        s4 == IF rate_limit_count = << >>
              THEN RedisSet(s3, rate_limit_key, 1, RATE_LIMIT_WINDOW_SECONDS)
              ELSE RedisIncr(s3, rate_limit_key)
    IN  IF rate_limit_count # << >> /\ rate_limit_count[1] >= OTP_RATE_LIMIT_PER_HOUR
        THEN [store |-> s, result |-> RateLimitError]
        ELSE IF RedisExists(s, resend_key)
        THEN [store |-> s, result |-> OTPError(RedisTtl(s, resend_key))]
        ELSE [store |-> s4, result |-> Generated(otp, expire_seconds)]

\* C17: resend_otp(identifier) fails with NotFoundError (404) and leaves
\* every key of the store as it was when no non-deleted user has that email
\* or phone; otherwise it leaves the store as generate_and_store(identifier)
\* does and ends as it does: with the same exception, or with the code that
\* was stored.  generate_and_store called by itself is held to the same
\* description.
C17_Resend ==
    \A p \in Procs :
        /\ Finished(p, "resend_otp") =>
              /\ users = pre[p].users /\ patients = pre[p].patients
              /\ IF Matched(p) = {}
                 THEN /\ ret[p].kind = "NotFoundError" /\ ret[p].status = 404
                      /\ store = pre[p].store
                 ELSE \E otp \in Codes :
                        LET g == generate_and_store(pre[p].store, call[p].id, otp)
                        IN  /\ store = g.store
                            /\ IF g.result.kind = "return"
                               THEN /\ ret[p].kind = "response"
                                    /\ ret[p].status = 200
                                    /\ loc[p].otp = g.result.otp
                               ELSE ret[p] = g.result
        /\ Finished(p, "generate_and_store") =>
              \E otp \in Codes :
                 LET g == generate_and_store(pre[p].store, call[p].id, otp)
                 IN  store = g.store /\ ret[p] = g.result

\* A resend for a registered user was refused because the cooldown marker
\* of the OTP sent at registration is still there.
C17_Witness ==
    \E p \in Procs :
        /\ Finished(p, "resend_otp")
        /\ Matched(p) # {}
        /\ ret[p].kind = "OTPError"
        /\ ret[p].n = OTP_RESEND_COOLDOWN_SECONDS

----------------------------------------------------------------------------
\* Properties of the verify-otp endpoint.

\* C18: a verify-otp request with a 6-digit code, for an identifier that had
\* no live OTP record when the call began, is answered with HTTP status 400
\* or 404.
C18_NoLiveOtp ==
    \A p \in Procs :
        /\ Finished(p, "verify_otp")
        /\ pre[p].store[_get_otp_key(call[p].id)] = << >>
        => ret[p].status \in {400, 404}

----------------------------------------------------------------------------
\* Properties of verify calls that overlap.

\* C19: each stored OTP code is accepted by at most one verify call, also
\* when the verify calls of two clients for one identifier overlap: two
\* calls in progress together never both end in success, and no code is
\* accepted twice between two generations.
C19_AcceptedOnce ==
    /\ \A p, q \in Procs :
          /\ p # q
          /\ Finished(p, "verify") /\ Finished(q, "verify")
          /\ call[p].id = call[q].id
          => ~(ret[p].kind = "valid" /\ ret[q].kind = "valid")
    /\ \A id \in Identifiers : hist[id].accepted <= 1

\* C20: when the verify calls of two clients for one identifier overlap, at
\* most max_attempts + 1 submitted codes are compared with one generated
\* OTP.
C20_ComparedCodes ==
    \A id \in Identifiers : hist[id].compared <= OTP_MAX_ATTEMPTS + 1

----------------------------------------------------------------------------
\* Properties of the account flags on the paths that make tokens.

----------------------------------------------------------------------------
\* Properties of requests without an identifier.

\* C22: a verify-otp or resend-otp request with neither email nor phone is
\* answered with status 400 and detail "Email or phone number required",
\* and neither the tables nor the store are touched.
C22_NoIdentifier ==
    \A p \in Procs :
        /\ pc[p] = "done"
        /\ call[p].op \in {"verify_otp", "resend_otp"}
        /\ call[p].id = Missing
        => /\ ret[p].status = 400
           /\ ret[p].msg = "Email or phone number required"
           /\ store = pre[p].store
           /\ users = pre[p].users /\ patients = pre[p].patients

----------------------------------------------------------------------------
\* Properties of a generation that overlaps verify calls.

\* The code last handed out for id has just been returned: no time has
\* passed and no verify call has been answered since.
Fresh(id) ==
    /\ hist[id].issued # << >>
    /\ hist[id].age = 0
    /\ hist[id].accepted = 0 /\ hist[id].wrong = 0 /\ hist[id].compared = 0

\* C23: a verify call never destroys an OTP it did not read: when a new
\* code is stored while a verify call that read the previous code is in
\* progress, the steps that call has left keep the new OTP record and its
\* attempts counter (0, with TTL), so the code just returned still verifies.
C23_NewOtpIntact ==
    \A id \in OtpIdentifiers :
        Quiet /\ Fresh(id)
            => /\ RedisGet(store, _get_otp_key(id)) = hist[id].issued
               /\ RedisGet(store, _get_attempts_key(id)) = <<0>>
               /\ RedisTtl(store, _get_attempts_key(id)) = expire_seconds

\* C24: when generate_and_store calls for one identifier overlap, the rate
\* counter still equals the number of calls that succeeded in the current
\* window, and it never exceeds OTP_RATE_LIMIT_PER_HOUR.
C24_CounterExact ==
    \A id \in OtpIdentifiers :
        LET rate_limit_count == RedisGet(store, _get_rate_limit_key(id))
        IN  /\ rate_limit_count # << >>
                => rate_limit_count[1] <= OTP_RATE_LIMIT_PER_HOUR
            /\ Quiet => rate_limit_count =
                            IF hist[id].winCount = 0 THEN << >>
                            ELSE <<hist[id].winCount>>

----------------------------------------------------------------------------
\* C25: whenever register reports an error (weak password, duplicate, or
\* a failure of the OTP generation through rate limit, cooldown or a store
\* out of reach), no user row and no profile row made by that call remains.
C25_AllOrNothing ==
    \A p \in Procs :
        Finished(p, "register_user") /\ ret[p].status # 201
            => users = pre[p].users /\ patients = pre[p].patients

----------------------------------------------------------------------------
\* Properties of the attempts counter under calls that do not overlap.

\* C26: between non-overlapping generate_and_store and verify calls, with
\* expiry, an OTP record always has an attempts counter with
\* 0 <= attempts < max_attempts, no attempts counter exists without a live
\* OTP record, and verify never takes its "attempts >= max_attempts" branch.
C26_AttemptsWithOtp ==
    /\ Quiet =>
          \A id \in OtpIdentifiers :
              LET stored_otp == RedisGet(store, _get_otp_key(id))
                  attempts == RedisGet(store, _get_attempts_key(id))
              IN  /\ stored_otp # << >>
                      => /\ attempts # << >>
                         /\ 0 <= attempts[1] /\ attempts[1] < OTP_MAX_ATTEMPTS
                  /\ attempts # << >> => stored_otp # << >>
    /\ \A p \in Procs : ret[p].msg # MsgLocked /\ loc[p].pending # MsgLocked

\* C27: with calls that do not overlap, each generated OTP is compared with
\* at most max_attempts wrong codes, and at most OTP_RATE_LIMIT_PER_HOUR OTPs
\* are generated during one lifetime of the rate counter (which is the hour
\* that began with the first of them); so these OTPs admit at most
\* OTP_RATE_LIMIT_PER_HOUR * OTP_MAX_ATTEMPTS wrong submissions that are
\* compared with a stored code.
C27_GuessingBudget ==
    \A id \in OtpIdentifiers :
        /\ hist[id].compared - hist[id].accepted <= OTP_MAX_ATTEMPTS
        /\ hist[id].winCount <= OTP_RATE_LIMIT_PER_HOUR
        /\ hist[id].winCount * OTP_MAX_ATTEMPTS <= 15
        /\ Quiet => RedisTtl(store, _get_rate_limit_key(id)) =
                        IF hist[id].winLeft = 0 THEN -2 ELSE hist[id].winLeft

\* The fifth OTP of one hour has been compared with three wrong codes.
C27_Witness ==
    \E id \in OtpIdentifiers :
        /\ hist[id].winCount = OTP_RATE_LIMIT_PER_HOUR
        /\ hist[id].compared = OTP_MAX_ATTEMPTS
        /\ hist[id].accepted = 0
        /\ hist[id].wrong = OTP_MAX_ATTEMPTS

----------------------------------------------------------------------------
\* C28: every user for whom login or refresh answers with a token pair has
\* is_verified = true at that moment, though refresh does not look at the
\* flag: every token ever handed out names a verified user.
C28_VerifiedOnly ==
    /\ \A p \in Procs :
          pc[p] = "done" /\ call[p].op \in {"login", "refresh"} /\ ret[p].tokens # << >>
              => \E i \in DOMAIN users :
                    users[i].id = ret[p].user[1] /\ users[i].is_verified
    /\ \A t \in wallet :
          \E i \in DOMAIN users : users[i].id = t.sub /\ users[i].is_verified

\* refresh has answered with a new pair.
C28_Witness ==
    \E p \in Procs :
        /\ Finished(p, "refresh")
        /\ ret[p].tokens # << >>
        /\ \E i \in DOMAIN users :
              users[i].id = ret[p].user[1] /\ users[i].is_verified

----------------------------------------------------------------------------
\* C29: issued tokens are never revoked by later operations: an unexpired
\* refresh token of an existing, active user is accepted by refresh however
\* many logins, refreshes, logouts and password changes came in between, the
\* token presented to refresh stays usable after the new pair is issued, and
\* logout and change_password take no token away.
Issued(p) ==
    /\ Arg(p) \in pre[p].wallet
    /\ Arg(p).type = "refresh"
    /\ Arg(p).exp >= 0
    /\ \E i \in DOMAIN pre[p].users :
          /\ pre[p].users[i].id = Arg(p).sub
          /\ pre[p].users[i].deleted_at = << >>
          /\ pre[p].users[i].is_active

C29_NeverRevoked ==
    /\ \A t \in wallet :
          t.type = "refresh" /\ t.exp >= 0 => decode_refresh_token(t) # << >>
    /\ \A p \in Procs :
          /\ Finished(p, "refresh") =>
                (Issued(p) =>
                    /\ ret[p].kind = "response" /\ ret[p].status = 200
                    /\ ret[p].tokens # << >>
                    /\ Arg(p) \in wallet
                    /\ decode_refresh_token(Arg(p)) # << >>)
          /\ pc[p] = "done" /\ call[p].op \in {"logout", "change_password"} =>
                /\ wallet = pre[p].wallet
                /\ call[p].op = "logout" =>
                      /\ store = pre[p].store
                      /\ users = pre[p].users
                      /\ patients = pre[p].patients

\* refresh has accepted a token that is older than another refresh token of
\* its subject, whose password was changed since registration.
C29_Witness ==
    \E p \in Procs :
        /\ Finished(p, "refresh")
        /\ Issued(p)
        /\ ret[p].status = 200
        /\ \E t \in pre[p].wallet :
              t.type = "refresh" /\ t.sub = Arg(p).sub /\ t.exp > Arg(p).exp
        /\ \E i \in ById(Arg(p).sub) :
              users[i].password_hash = hash_password(Xyz98765)

----------------------------------------------------------------------------
\* C30: a generate_and_store call that is refused (RateLimitError or the
\* cooldown OTPError) leaves the OTP record, the attempts counter, the Resend
\* Cooldown Marker and the Hourly Rate Counter as they were, remaining TTLs
\* included; can_resend changes nothing either, and answers with what the
\* marker says.
C30_RejectedUnchanged ==
    \A p \in Procs :
        /\ pc[p] = "done" /\ call[p].op = "generate_and_store"
              /\ ret[p].kind \in {"RateLimitError", "OTPError"}
              => store = pre[p].store
        /\ call[p].op = "can_resend" => store = pre[p].store
        /\ Finished(p, "can_resend") =>
              IF RedisExists(store, _get_resend_key(call[p].id))
              THEN /\ ret[p].kind = "cooldown"
                   /\ ret[p].n = RedisTtl(store, _get_resend_key(call[p].id))
              ELSE ret[p].kind = "resendable" /\ ret[p].n = 0

\* A generation was refused in the middle of the cooldown, with a live code
\* and a rate counter in the store.
C30_Witness ==
    \E p \in Procs :
        /\ Finished(p, "generate_and_store")
        /\ ret[p].kind = "OTPError"
        /\ ret[p].n > 0 /\ ret[p].n < OTP_RESEND_COOLDOWN_SECONDS
        /\ RedisExists(store, _get_otp_key(call[p].id))
        /\ RedisGet(store, _get_rate_limit_key(call[p].id)) # << >>

====
